---- MODULE Spec2Model ----
(***************************************************************************)
(* Model of the KrakenGPT gateway (src/main.py, src/db/db.py).             *)
(*                                                                         *)
(* Text is modelled as a tuple of one-character strings, so that the       *)
(* string operations of the code (concatenation, prefix tests) are         *)
(* computed and not assumed.  A configuration value is modelled by its     *)
(* truthiness, which is all the code looks at.                             *)
(***************************************************************************)
EXTENDS Integers, Sequences, FiniteSets, TLC

\* ---------------------------------------------------------------- bounds
\* number of upstream chunks one streamed answer may carry
MaxChunks == 3
\* number of read-modify-write rounds one API client performs
MaxRounds == 2
\* longest text given to chunk_text
MaxDocLen == 6
\* most documents ever ingested
MaxDocs == 3
\* most chunk rows of malformed embedding at a time
MaxStale == 2
\* most pieces of a text given to the enhancer, and most passes over it
MaxPieces == 3
MaxPasses == 2

\* names of the completion requests the server may be given
Reqs == {"r1", "r2"}
Clients == {"A", "B"}

\* Python's None, where the value is otherwise a string
None == "None"
\* An Optional value of any other type: Nothing is None, Some(v) is v
Nothing == {}
Some(v) == {v}
The(o) == CHOOSE v \in o : TRUE

\* ------------------------------------------------------ program constants
DEFAULT_PROVIDER == "azure"
SUPPORTED_PROVIDERS == {"azure", "openrouter", "local"}

VARIABLES
    AZURE_API_KEY,        \* truthiness of the configured value
    AZURE_ENDPOINT,
    OPENROUTER_API_KEY,
    LOCAL_ENDPOINT,
    chats,                \* table chats: id -> row
    request,              \* request[r]: the ChatCompletionRequestWithChat
    pc,                   \* pc[r]: position of the handler / generator of r
    provider,             \* provider[r]: local variable of chat_completions
    attempt,              \* attempt[r]: provider whose forward_* call runs
    status,               \* status[r]: response.status_code of the stream
    calls,                \* calls[r]: upstream HTTP calls issued for r, in order
    answers,              \* answers[r]: what the upstream answered to them
    exc,                  \* exc[r]: exception e caught by chat_completions
    result,               \* result[r]: what chat_completions gave the caller
    upstream,             \* upstream[r]: chunks read from response.aiter_text()
    yielded,              \* yielded[r]: chunks the generator yielded
    full_response,        \* full_response[r]: transcript accumulator
    retrieval,            \* retrieval[r]: how the RAG step of r ended
    messages_to_send,     \* messages_to_send[r]: payload["messages"] of r
    cpc,                  \* cpc[k]: position of API client k
    held,                 \* held[k]: message list client k last read
    rounds,               \* rounds[k]: PUTs client k has sent
    writes,               \* the PUTs handled, in order
    document,             \* text given to chunk_text
    size,                 \* chunk_size given to chunk_text
    produced,             \* what chunk_text returned
    kpc,                  \* position of the chunk_text call
    reply,                \* text given to enhance_text_with_markdown
    enhanced,             \* what its successive passes returned
    rag_documents,        \* table rag_documents: id -> row
    rag_chunks,           \* table rag_chunks: id -> row
    sequence,             \* AUTOINCREMENT counters of the two tables
    searched,             \* arguments of the last SimpleRAG.search call
    rag_context,          \* what that call returned
    retrieved,            \* relevant_chunks of that call
    projects,             \* table projects: the ids of its rows
    foreign_keys,         \* whether SQLite enforces foreign keys
    response              \* outcome of the last document or project call

env == <<AZURE_API_KEY, AZURE_ENDPOINT, OPENROUTER_API_KEY, LOCAL_ENDPOINT>>
asmvars == <<retrieval, messages_to_send>>
reqvars == <<request, pc, provider, attempt, status, calls, answers, exc, result,
             upstream, yielded, full_response, asmvars>>
clientvars == <<cpc, held, rounds, writes>>
chunkvars == <<document, size, produced, kpc>>
ragvars == <<rag_documents, rag_chunks, sequence, searched, rag_context,
            retrieved, projects, foreign_keys, response>>
markvars == <<reply, enhanced>>
purevars == <<chunkvars, markvars>>
libvars == <<purevars, ragvars>>
vars == <<env, chats, reqvars, clientvars, libvars>>

\* ------------------------------------------------------------------ text
T_ciao == <<"c", "i", "a", "o">>
T_sys == <<"s", "y", "s">>
T_old == <<"o", "l", "d">>
T_Hi == <<"H", "i">>
T_there == <<" ", "t", "h", "e", "r", "e">>
T_Hi_there == <<"H", "i", " ", "t", "h", "e", "r", "e">>
T_a == <<"a">>
T_b == <<"b">>

Message(role, content) == [role |-> role, content |-> content]

\* `if chat_id:` on an Optional[int]; ids are written as digit strings
Truthy(x) == x /= None /\ x /= "0"

\* --------------------------------------------------------- configuration
\* bool(AZURE_API_KEY and AZURE_ENDPOINT), bool(OPENROUTER_API_KEY),
\* bool(LOCAL_ENDPOINT): the availability predicates of /providers
available(p) ==
    CASE p = "azure" -> AZURE_API_KEY /\ AZURE_ENDPOINT
      [] p = "openrouter" -> OPENROUTER_API_KEY
      [] p = "local" -> LOCAL_ENDPOINT
      [] OTHER -> FALSE

\* ------------------------------------------------------------ exceptions
HTTPException(status_code, detail) ==
    [type |-> "HTTPException", status_code |-> status_code, detail |-> detail]

\* an exception that is not an HTTPException (KeyError, JSONDecodeError, ...)
PyError(type, msg) == [type |-> type, status_code |-> 0, detail |-> msg]

\* str(e): Starlette renders an HTTPException as "<status_code>: <detail>",
\* any other exception as its message
str(e) ==
    IF e.type = "HTTPException" THEN <<ToString(e.status_code), ": ", e.detail>>
    ELSE <<e.detail>>

NoProviderConfigured ==
    HTTPException(500, <<"No provider configured. Please set Azure, Local, or OpenRouter settings.">>)

\* ------------------------------------------- pre-send provider resolution
\* The three `if` blocks of chat_completions, in order.  Each maps the
\* current provider to the next one; Raise stands for the HTTPException(500)
\* raised inside the block, after which no later block runs.
Raise == "raise"

\* mutant: Azure falls back to OpenRouter before Local
AzureFallback_openrouter_first(p) ==
    IF p = "azure" /\ (~AZURE_API_KEY \/ ~AZURE_ENDPOINT)
    THEN IF OPENROUTER_API_KEY THEN "openrouter"
         ELSE IF LOCAL_ENDPOINT THEN "local"
         ELSE Raise
    ELSE p

AzureFallback(p) ==
    IF p = "azure" /\ (~AZURE_API_KEY \/ ~AZURE_ENDPOINT)
    THEN IF LOCAL_ENDPOINT THEN "local"
         ELSE IF OPENROUTER_API_KEY THEN "openrouter"
         ELSE Raise
    ELSE p

OpenRouterFallback(p) ==
    IF p = "openrouter" /\ ~OPENROUTER_API_KEY
    THEN IF LOCAL_ENDPOINT THEN "local"
         ELSE IF AZURE_API_KEY /\ AZURE_ENDPOINT THEN "azure"
         ELSE Raise
    ELSE p

\* mutant: an unconfigured Local is used anyway when nothing else is there
LocalFallback_degrade(p) ==
    IF p = "local" /\ ~LOCAL_ENDPOINT
    THEN IF AZURE_API_KEY /\ AZURE_ENDPOINT THEN "azure"
         ELSE IF OPENROUTER_API_KEY THEN "openrouter"
         ELSE p
    ELSE p

LocalFallback(p) ==
    IF p = "local" /\ ~LOCAL_ENDPOINT
    THEN IF AZURE_API_KEY /\ AZURE_ENDPOINT THEN "azure"
         ELSE IF OPENROUTER_API_KEY THEN "openrouter"
         ELSE Raise
    ELSE p

ResolveProvider(p) == LocalFallback(OpenRouterFallback(AzureFallback(p)))

\* provider = request.provider or DEFAULT_PROVIDER
SelectedProvider(req) ==
    IF req.provider = None \/ req.provider = "" THEN DEFAULT_PROVIDER
    ELSE req.provider

\* ------------------------------------------------------------------ JSON
\* A JSON text is kept apart from the value it denotes: json_dumps tags the
\* value as text, json_loads gives the value back for a JSON text and fails
\* on any other text.
json_dumps(v) == <<"json", v>>
IsJson(text) == Len(text) = 2 /\ text[1] = "json"
json_loads(text) == text[2]

\* --------------------------------------------------------- DatabaseManager
\* a row of table chats; column messages is a JSON text
ChatRow(project_id, title, context, messages) ==
    [project_id |-> project_id, title |-> title, context |-> context,
     messages |-> json_dumps(messages)]

\* DatabaseManager.get_chat: the row with messages parsed, or None
get_chat(tbl, chat_id) ==
    IF chat_id \in DOMAIN tbl
    THEN Some([tbl[chat_id] EXCEPT !.messages =
                  IF IsJson(tbl[chat_id].messages)
                  THEN json_loads(tbl[chat_id].messages) ELSE <<>>])
    ELSE Nothing

\* mutant: the write keeps what is stored and adds the messages that are new
update_chat_merge(tbl, chat_id, title, messages, context) ==
    IF messages = Nothing \/ chat_id \notin DOMAIN tbl
    THEN [db |-> tbl, success |-> FALSE]
    ELSE LET old == json_loads(tbl[chat_id].messages)
             new == The(messages)
             fresh == SelectSeq(new, LAMBDA m : \A i \in 1..Len(old) : old[i] /= m)
         IN [db |-> [tbl EXCEPT ![chat_id].messages = json_dumps(old \o fresh)],
             success |-> TRUE]

\* mutant: the fields that are None are reset to their defaults
update_chat_reset(tbl, chat_id, title, messages, context) ==
    IF title = Nothing /\ messages = Nothing /\ context = Nothing
    THEN [db |-> tbl, success |-> FALSE]
    ELSE IF chat_id \notin DOMAIN tbl
    THEN [db |-> tbl, success |-> FALSE]
    ELSE [db |-> [tbl EXCEPT ![chat_id] =
                    [project_id |-> @.project_id,
                     title |-> IF title /= Nothing THEN The(title) ELSE <<>>,
                     context |-> IF context /= Nothing THEN The(context)
                                 ELSE <<>>,
                     messages |-> IF messages /= Nothing
                                  THEN json_dumps(The(messages))
                                  ELSE json_dumps(<<>>)]],
          success |-> TRUE]

\* DatabaseManager.update_chat: the fields that are not None overwrite the
\* row's; gives the new table and the success flag (rowcount > 0)
update_chat(tbl, chat_id, title, messages, context) ==
    IF title = Nothing /\ messages = Nothing /\ context = Nothing
    THEN [db |-> tbl, success |-> FALSE]
    ELSE IF chat_id \notin DOMAIN tbl
    THEN [db |-> tbl, success |-> FALSE]
    ELSE [db |-> [tbl EXCEPT ![chat_id] =
                    [project_id |-> @.project_id,
                     title |-> IF title /= Nothing THEN The(title) ELSE @.title,
                     context |-> IF context /= Nothing THEN The(context)
                                 ELSE @.context,
                     messages |-> IF messages /= Nothing
                                  THEN json_dumps(The(messages))
                                  ELSE @.messages]],
          success |-> TRUE]

\* the stored message list of a chat that exists
StoredMessages(tbl, chat_id) == The(get_chat(tbl, chat_id)).messages

\* mutant: the messages of another role than user are left out
AsDicts_user_only(messages) == SelectSeq(messages, LAMBDA m : m.role = "user")

\* [{"role": msg.role, "content": msg.content} for msg in messages]
AsDicts(messages) ==
    [i \in 1..Len(messages) |-> Message(messages[i].role, messages[i].content)]

\* ----------------------------------------------------------- str methods
UpperCase ==
    <<"A", "B", "C", "D", "E", "F", "G", "H", "I", "J", "K", "L", "M",
      "N", "O", "P", "Q", "R", "S", "T", "U", "V", "W", "X", "Y", "Z">>
LowerCase ==
    <<"a", "b", "c", "d", "e", "f", "g", "h", "i", "j", "k", "l", "m",
      "n", "o", "p", "q", "r", "s", "t", "u", "v", "w", "x", "y", "z">>
IndexIn(c, alphabet) == CHOOSE i \in 1..Len(alphabet) : alphabet[i] = c
IsUpperChar(c) == \E i \in 1..Len(UpperCase) : UpperCase[i] = c
IsLowerChar(c) == \E i \in 1..Len(LowerCase) : LowerCase[i] = c
IsDigit(c) == c \in {"0", "1", "2", "3", "4", "5", "6", "7", "8", "9"}
LowerChar(c) == IF IsUpperChar(c) THEN LowerCase[IndexIn(c, UpperCase)] ELSE c
UpperChar(c) == IF IsLowerChar(c) THEN UpperCase[IndexIn(c, LowerCase)] ELSE c

\* text.lower()
lower(text) == [i \in 1..Len(text) |-> LowerChar(text[i])]
\* text.capitalize()
capitalize(text) ==
    [i \in 1..Len(text) |-> IF i = 1 THEN UpperChar(text[i]) ELSE LowerChar(text[i])]
\* text.isupper(): some cased character and no lower-case one
isupper(text) ==
    /\ \E i \in 1..Len(text) : IsUpperChar(text[i])
    /\ \A i \in 1..Len(text) : ~IsLowerChar(text[i])
\* pat in text
contains(text, pat) ==
    \E i \in 1..(Len(text) - Len(pat) + 1) : SubSeq(text, i, i + Len(pat) - 1) = pat
\* text.endswith(suffix)
endswith(text, suffix) ==
    /\ Len(text) >= Len(suffix)
    /\ SubSeq(text, Len(text) - Len(suffix) + 1, Len(text)) = suffix
\* text.startswith(prefix)
startswith(text, prefix) ==
    /\ ~IsJson(text)
    /\ Len(text) >= Len(prefix)
    /\ SubSeq(text, 1, Len(prefix)) = prefix

Whitespace == {" ", "\n", "\t", "\r"}
RECURSIVE lstrip(_)
lstrip(text) ==
    IF text /= <<>> /\ Head(text) \in Whitespace THEN lstrip(Tail(text)) ELSE text
RECURSIVE rstrip(_)
rstrip(text) ==
    IF text /= <<>> /\ text[Len(text)] \in Whitespace
    THEN rstrip(SubSeq(text, 1, Len(text) - 1)) ELSE text
\* text.strip()
strip(text) == rstrip(lstrip(text))

\* text.split(sep) for a one-character sep: the pieces between the seps
RECURSIVE split_on(_, _)
split_on(text, sep) ==
    IF \A i \in 1..Len(text) : text[i] /= sep THEN <<text>>
    ELSE LET i == CHOOSE j \in 1..Len(text) :
                      text[j] = sep /\ \A k \in 1..(j - 1) : text[k] /= sep
         IN <<SubSeq(text, 1, i - 1)>> \o split_on(SubSeq(text, i + 1, Len(text)), sep)

\* text.split(): the maximal runs of characters that are not whitespace
RECURSIVE split(_)
split(text) ==
    LET t == lstrip(text) IN
    IF t = <<>> THEN <<>>
    ELSE IF \A i \in 1..Len(t) : t[i] \notin Whitespace THEN <<t>>
    ELSE LET i == CHOOSE j \in 1..Len(t) :
                      t[j] \in Whitespace /\ \A k \in 1..(j - 1) : t[k] \notin Whitespace
         IN <<SubSeq(t, 1, i - 1)>> \o split(SubSeq(t, i + 1, Len(t)))

\* sep.join(parts)
RECURSIVE join(_, _)
join(sep, parts) ==
    IF parts = <<>> THEN <<>>
    ELSE IF Len(parts) = 1 THEN parts[1]
    ELSE parts[1] \o sep \o join(sep, Tail(parts))

\* text.replace(old, new) for a non-empty old: left to right, no overlaps
RECURSIVE replace(_, _, _)
replace(text, old, new) ==
    IF ~contains(text, old) THEN text
    ELSE LET i == CHOOSE j \in 1..(Len(text) - Len(old) + 1) :
                      /\ SubSeq(text, j, j + Len(old) - 1) = old
                      /\ \A k \in 1..(j - 1) : SubSeq(text, k, k + Len(old) - 1) /= old
         IN SubSeq(text, 1, i - 1) \o new
            \o replace(SubSeq(text, i + Len(old), Len(text)), old, new)

\* text.split(sep) for a sep of any length: left to right, no overlaps
RECURSIVE split_str(_, _)
split_str(text, sep) ==
    IF ~contains(text, sep) THEN <<text>>
    ELSE LET i == CHOOSE j \in 1..(Len(text) - Len(sep) + 1) :
                      /\ SubSeq(text, j, j + Len(sep) - 1) = sep
                      /\ \A k \in 1..(j - 1) : SubSeq(text, k, k + Len(sep) - 1) /= sep
         IN <<SubSeq(text, 1, i - 1)>>
            \o split_str(SubSeq(text, i + Len(sep), Len(text)), sep)

\* ---------------------------------------------------------------- chunker
DEFAULT_CHUNK_SIZE == 500
ParagraphBreak == <<"\n", "\n">>

\* the first two statements of chunk_text: line ends made "\n", every line
\* stripped
clean_text(text) ==
    LET unix == replace(replace(text, <<"\r", "\n">>, <<"\n">>), <<"\r">>, <<"\n">>)
        lines == split_on(unix, "\n")
    IN join(<<"\n">>, [i \in 1..Len(lines) |-> strip(lines[i])])

\* paragraphs = [p.strip() for p in text.split('\n\n') if p.strip()]
paragraphs_of(text) ==
    LET pieces == split_str(text, ParagraphBreak)
        stripped == [i \in 1..Len(pieces) |-> strip(pieces[i])]
    IN SelectSeq(stripped, LAMBDA q : q /= <<>>)

\* mutant: a paragraph that does not fit replaces the chunk being built
\* without that chunk being kept
RECURSIVE accumulate_drop(_, _, _, _, _)
accumulate_drop(paragraphs, i, chunks, current_chunk, chunk_size) ==
    IF i > Len(paragraphs)
    THEN IF strip(current_chunk) /= <<>> THEN Append(chunks, strip(current_chunk))
         ELSE chunks
    ELSE LET paragraph == paragraphs[i]
         IN IF Len(current_chunk \o paragraph) > chunk_size /\ current_chunk /= <<>>
            THEN accumulate_drop(paragraphs, i + 1, chunks,
                                 paragraph \o ParagraphBreak, chunk_size)
            ELSE accumulate_drop(paragraphs, i + 1, chunks,
                                 current_chunk \o paragraph \o ParagraphBreak,
                                 chunk_size)

\* mutant: the limit is tested on the chunk being built alone, before the
\* paragraph is added
RECURSIVE accumulate_late(_, _, _, _, _)
accumulate_late(paragraphs, i, chunks, current_chunk, chunk_size) ==
    IF i > Len(paragraphs)
    THEN IF strip(current_chunk) /= <<>> THEN Append(chunks, strip(current_chunk))
         ELSE chunks
    ELSE LET paragraph == paragraphs[i]
         IN IF Len(current_chunk) > chunk_size /\ current_chunk /= <<>>
            THEN accumulate_late(paragraphs, i + 1,
                                 Append(chunks, strip(current_chunk)),
                                 paragraph \o ParagraphBreak, chunk_size)
            ELSE accumulate_late(paragraphs, i + 1, chunks,
                                 current_chunk \o paragraph \o ParagraphBreak,
                                 chunk_size)

\* the loop over the paragraphs from paragraph number i on, followed by
\* "Aggiungi ultimo chunk": the chunks of the paragraph accumulation
RECURSIVE accumulate(_, _, _, _, _)
accumulate(paragraphs, i, chunks, current_chunk, chunk_size) ==
    IF i > Len(paragraphs)
    THEN IF strip(current_chunk) /= <<>> THEN Append(chunks, strip(current_chunk))
         ELSE chunks
    ELSE LET paragraph == paragraphs[i]
         IN IF Len(current_chunk \o paragraph) > chunk_size /\ current_chunk /= <<>>
            THEN accumulate(paragraphs, i + 1, Append(chunks, strip(current_chunk)),
                            paragraph \o ParagraphBreak, chunk_size)
            ELSE accumulate(paragraphs, i + 1, chunks,
                            current_chunk \o paragraph \o ParagraphBreak, chunk_size)

\* the fallback loop: the windows text[i:i + chunk_size], stripped, the blank
\* ones left out
windows(text, chunk_size) ==
    LET n == (Len(text) + chunk_size - 1) \div chunk_size
        window(k) == SubSeq(text, (k - 1) * chunk_size + 1,
                            IF k * chunk_size < Len(text) THEN k * chunk_size
                            ELSE Len(text))
        stripped == [k \in 1..n |-> strip(window(k))]
    IN SelectSeq(stripped, LAMBDA w : w /= <<>>)

\* mutant: a chunk longer than chunk_size is split into windows again
chunk_text_resplit(text, chunk_size) ==
    LET cleaned == clean_text(text)
        chunks == accumulate(paragraphs_of(cleaned), 1, <<>>, <<>>, chunk_size)
        RECURSIVE resplit(_)
        resplit(cs) ==
            IF cs = <<>> THEN <<>>
            ELSE (IF Len(Head(cs)) > chunk_size THEN windows(Head(cs), chunk_size)
                  ELSE <<Head(cs)>>) \o resplit(Tail(cs))
    IN IF chunks = <<>> THEN windows(cleaned, chunk_size) ELSE resplit(chunks)

\* SimpleRAG.chunk_text
chunk_text(text, chunk_size) ==
    LET cleaned == clean_text(text)
        chunks == accumulate(paragraphs_of(cleaned), 1, <<>>, <<>>, chunk_size)
    IN IF chunks = <<>> THEN windows(cleaned, chunk_size) ELSE chunks

\* -------------------------------------------------------------- retrieval
\* SentenceTransformer.encode is a fixed function from texts to vectors; the
\* vectors are named, and the cosine of a query vector and a chunk vector is
\* read from a table, in hundredths (0.9 is 90).
DEFAULT_TOP_K == 5
THRESHOLD == 5

T_alfa == <<"a", "l", "f", "a">>
T_beta == <<"b", "e", "t", "a">>
T_gamma == <<"g", "a", "m", "m", "a">>
T_delta == <<"d", "e", "l", "t", "a">>
T_blank == <<" ", "\n">>
Q_uno == <<"u", "n", "o">>
Q_due == <<"d", "u", "e">>

\* self.model.encode([text])[0]
encode(text) ==
    CASE text = T_alfa -> "v1"
      [] text = T_beta -> "v2"
      [] text = T_gamma -> "v3"
      [] text = T_delta -> "v4"
      [] text = Q_uno -> "u1"
      [] text = Q_due -> "u2"
      [] OTHER -> "v0"

\* np.dot(q, c) / (np.linalg.norm(q) * np.linalg.norm(c)), in hundredths
cosine(query_embedding, chunk_embedding) ==
    CASE query_embedding = "u1" ->
            (CASE chunk_embedding = "v1" -> 90
               [] chunk_embedding = "v2" -> 20
               [] chunk_embedding = "v3" -> 1
               [] chunk_embedding = "v4" -> 5
               [] OTHER -> 0)
      [] query_embedding = "u2" ->
            (CASE chunk_embedding = "v1" -> 1
               [] chunk_embedding = "v2" -> 90
               [] chunk_embedding = "v3" -> 0 - 30
               [] chunk_embedding = "v4" -> 20
               [] OTHER -> 0)
      [] OTHER -> 0

\* the ids of a table in ascending order, the order the rows are read in
RECURSIVE ascending(_)
ascending(ids) ==
    IF ids = {} THEN <<>>
    ELSE LET least == CHOOSE i \in ids : \A j \in ids : i <= j
         IN <<least>> \o ascending(ids \ {least})

\* mutant: the rows of every project are read
project_rows_all(documents, chunks, project_id) ==
    LET ids == ascending({c \in DOMAIN chunks :
                             chunks[c].document_id \in DOMAIN documents})
    IN [i \in 1..Len(ids) |->
           [content |-> chunks[ids[i]].content,
            embedding |-> chunks[ids[i]].embedding,
            filename |-> documents[chunks[ids[i]].document_id].filename]]

\* SELECT rc.content, rc.embedding, rd.filename FROM rag_chunks rc JOIN
\* rag_documents rd ON rc.document_id = rd.id WHERE rd.project_id = ?
project_rows(documents, chunks, project_id) ==
    LET ids == ascending({c \in DOMAIN chunks :
                             /\ chunks[c].document_id \in DOMAIN documents
                             /\ documents[chunks[c].document_id].project_id
                                   = project_id})
    IN [i \in 1..Len(ids) |->
           [content |-> chunks[ids[i]].content,
            embedding |-> chunks[ids[i]].embedding,
            filename |-> documents[chunks[ids[i]].document_id].filename]]

\* the length of a vector: the model's, except for the vector of another
\* model
EMBEDDING_DIM == 384
dimension(embedding) == IF embedding = "w1" THEN EMBEDDING_DIM + 1 ELSE EMBEDDING_DIM

\* json.loads and np.dot succeed: the text is JSON and the vector has the
\* length of the query's
computable(query_embedding, embedding_json) ==
    /\ IsJson(embedding_json)
    /\ dimension(json_loads(embedding_json)) = dimension(query_embedding)

\* mutant: a row whose similarity cannot be computed ends the search
similarities_of_abort(query_embedding, results) ==
    IF \E i \in 1..Len(results) : ~computable(query_embedding, results[i].embedding)
    THEN <<>>
    ELSE [i \in 1..Len(results) |->
             [similarity |-> cosine(query_embedding, json_loads(results[i].embedding)),
              content |-> results[i].content, filename |-> results[i].filename]]

\* the loop that computes the similarities: a row whose embedding does not
\* parse, or whose vector has another length than the query's, raises inside
\* the inner try and is skipped
RECURSIVE similarities_of(_, _)
similarities_of(query_embedding, results) ==
    IF results = <<>> THEN <<>>
    ELSE LET row == Head(results)
         IN (IF computable(query_embedding, row.embedding)
             THEN <<[similarity |-> cosine(query_embedding, json_loads(row.embedding)),
                     content |-> row.content, filename |-> row.filename]>>
             ELSE <<>>)
            \o similarities_of(query_embedding, Tail(results))

\* mutant: the list is left in the order of the rows
sort_unsorted(similarities) == similarities

\* similarities.sort(reverse=True, key=lambda x: x[0]): descending, entries
\* of equal similarity stay in their order
RECURSIVE sort(_)
sort(similarities) ==
    IF similarities = <<>> THEN <<>>
    ELSE LET i == CHOOSE j \in 1..Len(similarities) :
                     /\ \A k \in 1..Len(similarities) :
                           similarities[k].similarity <= similarities[j].similarity
                     /\ \A k \in 1..(j - 1) :
                           similarities[k].similarity < similarities[j].similarity
         IN <<similarities[i]>>
            \o sort(SubSeq(similarities, 1, i - 1)
                    \o SubSeq(similarities, i + 1, Len(similarities)))

\* mutant: every chunk counts as relevant
is_relevant_always(chunk) == TRUE

\* chunk[0] >= 0.05
is_relevant(chunk) == chunk.similarity >= THRESHOLD

\* relevant_chunks of SimpleRAG.search; the empty list when search returns
\* "" before it gets there
relevant_chunks(documents, chunks, query, project_id, top_k) ==
    LET results == project_rows(documents, chunks, project_id)
        similarities == similarities_of(encode(query), results)
        sorted == sort(similarities)
        top_chunks == SubSeq(sorted, 1, IF top_k < Len(sorted) THEN top_k
                                        ELSE Len(sorted))
    IN SelectSeq(top_chunks, is_relevant)

\* "[Fonte: {filename} - Rilevanza: {score_percent:.1f}%]\n{content}"
context_part(chunk) ==
    <<"[Fonte: ">> \o chunk.filename \o <<" - Rilevanza: ",
      ToString(chunk.similarity), ".0%]\n">> \o chunk.content

\* SimpleRAG.search: the context, "" when nothing is relevant
search(documents, chunks, query, project_id, top_k) ==
    LET relevant == relevant_chunks(documents, chunks, query, project_id, top_k)
    IN IF relevant = <<>> THEN <<>>
       ELSE join(<<"\n\n---\n\n">>,
                 [i \in 1..Len(relevant) |-> context_part(relevant[i])])

\* the chunk rows whose document row belongs to the project
ChunksOf(documents, chunks, project_id) ==
    {c \in DOMAIN chunks :
        /\ chunks[c].document_id \in DOMAIN documents
        /\ documents[chunks[c].document_id].project_id = project_id}

\* get_project_stats: the number of document rows and of chunk rows of the
\* project
get_project_stats(documents, chunks, project_id) ==
    [documents |-> Cardinality({d \in DOMAIN documents :
                                   documents[d].project_id = project_id}),
     chunks |-> Cardinality(ChunksOf(documents, chunks, project_id))]

\* ------------------------------------------------------- post-processor
\* Two characters of the source that a TLA+ string cannot hold: the backquote,
\* and the non-ASCII list marker (one symbol here, three characters there).
BACKTICK == "backquote"
BULLET == "bullet"

markdown_indicators ==
    << <<"*", "*">>, <<"*">>, <<BACKTICK>>, <<"#">>, <<"#", "#">>, <<"#", "#", "#">>,
       <<"-">>, <<"1", ".">>, <<">">>, <<BACKTICK, BACKTICK, BACKTICK>> >>

file_extensions ==
    << <<".", "p", "y">>, <<".", "j", "s">>, <<".", "c", "s", "s">>,
       <<".", "h", "t", "m", "l">>, <<".", "j", "s", "o", "n">> >>

important_words ==
    << <<"i", "m", "p", "o", "r", "t", "a", "n", "t", "e">>,
       <<"a", "t", "t", "e", "n", "z", "i", "o", "n", "e">>,
       <<"n", "o", "t", "a">>,
       <<"e", "r", "r", "o", "r", "e">>,
       <<"s", "u", "c", "c", "e", "s", "s", "o">>,
       <<"w", "a", "r", "n", "i", "n", "g">>,
       <<"e", "r", "r", "o", "r">> >>

has_extension(text) ==
    \E i \in 1..Len(file_extensions) : contains(lower(text), file_extensions[i])

is_technical(word) == (isupper(word) /\ Len(word) > 2) \/ has_extension(word)

\* the loop over important_words, from word number i on
RECURSIVE emphasize(_, _)
emphasize(line, i) ==
    IF i > Len(important_words) THEN line
    ELSE LET word == important_words[i]
             bold(w) == <<"*", "*">> \o w \o <<"*", "*">>
         IN IF contains(lower(line), lower(word))
            THEN emphasize(replace(replace(line, word, bold(word)),
                                   capitalize(word), bold(capitalize(word))),
                           i + 1)
            ELSE emphasize(line, i + 1)

\* the body of the loop over the lines
enhance_line(raw) ==
    LET line == strip(raw)
        words == split(line)
    IN IF line = <<>> THEN <<>>
       ELSE IF endswith(line, <<":">>) /\ Len(line) > 10
       THEN <<"#", "#", "#", " ">> \o line
       ELSE IF \/ startswith(line, <<"-", " ">>)
               \/ startswith(line, <<BULLET, " ">>)
               \/ startswith(line, <<"*", " ">>)
               \/ /\ Len(line) > 3
                  /\ IsDigit(line[1])
                  /\ SubSeq(line, 2, 3) \in {<<".", " ">>, <<")", " ">>}
       THEN line
       ELSE IF \/ \E i \in 1..Len(words) : isupper(words[i]) /\ Len(words[i]) > 2
               \/ has_extension(line)
       THEN join(<<" ">>,
                 [i \in 1..Len(words) |->
                     IF is_technical(words[i])
                     THEN <<BACKTICK>> \o words[i] \o <<BACKTICK>>
                     ELSE words[i]])
       ELSE emphasize(line, 1)

\* mutant: a text that holds markdown already is enhanced as well
enhance_text_always(text) ==
    IF text = <<>> THEN text
    ELSE LET lines == split_on(text, "\n")
         IN join(<<"\n">>, [i \in 1..Len(lines) |-> enhance_line(lines[i])])

\* enhance_text_with_markdown
enhance_text_with_markdown(text) ==
    IF text = <<>> THEN text
    ELSE IF \E i \in 1..Len(markdown_indicators) : contains(text, markdown_indicators[i])
    THEN text
    ELSE LET lines == split_on(text, "\n")
         IN join(<<"\n">>, [i \in 1..Len(lines) |-> enhance_line(lines[i])])

\* ------------------------------------------------- upstream HTTP responses
T_gpt4 == <<"g", "p", "t", "-", "4">>
T_bad_gateway == <<"b", "a", "d">>
T_timeout == <<"t", "i", "m", "e", "o", "u", "t">>
T_html == <<"<", "h", "t", "m", "l", ">">>
T_nota == <<"n", "o", "t", "a">>

\* httpx raised a RequestError instead of giving a response
RequestError == [kind |-> "RequestError", status_code |-> 0, text |-> T_timeout]
Response(status_code, text) ==
    [kind |-> "response", status_code |-> status_code, text |-> text]

Completion(content) ==
    json_dumps([choices |-> <<[message |-> [role |-> "assistant",
                                            content |-> content]]>>])
NoChoices == json_dumps([error |-> T_bad_gateway])

ErrorStatuses == {204, 404, 503}

\* what a provider may answer to a non-streamed POST
RegularAnswers ==
    {RequestError}
    \cup {Response(st, T_bad_gateway) : st \in ErrorStatuses}
    \cup {Response(200, t) : t \in {Completion(T_nota), Completion(<<>>),
                                     NoChoices, T_html}}

\* what a provider may answer when the stream is opened
StreamAnswers ==
    {RequestError}
    \cup {Response(st, <<>>) : st \in ErrorStatuses \cup {200}}

ProviderName(p) ==
    CASE p = "azure" -> "Azure"
      [] p = "openrouter" -> "OpenRouter"
      [] p = "local" -> "Local"

\* the HTTPException a forward_*_regular_request raises on status != 200
StatusError(p, req, resp) ==
    IF p = "openrouter"
    THEN IF resp.status_code = 401
         THEN HTTPException(401, <<"OpenRouter API key non valida o scaduta">>)
         ELSE IF resp.status_code = 404
         THEN HTTPException(404, <<"Modello '", req.model, "' non trovato su OpenRouter">>)
         ELSE HTTPException(resp.status_code,
                  <<"OpenRouter Error ", ToString(resp.status_code), ": ", resp.text>>)
    ELSE HTTPException(resp.status_code, resp.text)

Raised(e, tbl) == [raised |-> TRUE, exc |-> e, value |-> <<>>, db |-> tbl]
Returned(v, tbl) == [raised |-> FALSE, exc |-> PyError("none", <<>>), value |-> v, db |-> tbl]

\* mutant: the messages of the request are stored before the status of the
\* answer is looked at
forward_regular_request_early(p, tbl, req, resp) ==
    IF resp.kind = "RequestError"
    THEN Raised(HTTPException(500, <<ProviderName(p), " connection error: ", resp.text>>), tbl)
    ELSE IF resp.status_code /= 200
    THEN Raised(StatusError(p, req, resp),
                IF Truthy(req.chat_id) /\ get_chat(tbl, req.chat_id) /= Nothing
                THEN update_chat(tbl, req.chat_id, Nothing,
                                 Some(StoredMessages(tbl, req.chat_id)
                                      \o AsDicts(req.messages)),
                                 Nothing).db
                ELSE tbl)
    ELSE IF ~IsJson(resp.text)
    THEN Raised(PyError("JSONDecodeError", <<"Expecting value">>), tbl)
    ELSE
      LET data == json_loads(resp.text)
          has_choices == "choices" \in DOMAIN data /\ Len(data.choices) > 0
          response_data ==
              IF has_choices
              THEN [data EXCEPT !.choices[1].message.content =
                                   enhance_text_with_markdown(@)]
              ELSE data
      IN IF Truthy(req.chat_id) /\ get_chat(tbl, req.chat_id) /= Nothing
         THEN IF ~has_choices
              THEN Raised(PyError("KeyError", <<"'choices'">>), tbl)
              ELSE LET ai_message == response_data.choices[1].message
                       existing_messages ==
                           StoredMessages(tbl, req.chat_id)
                           \o AsDicts(req.messages)
                           \o <<Message(ai_message.role, ai_message.content)>>
                   IN Returned(response_data,
                               update_chat(tbl, req.chat_id, Nothing,
                                           Some(existing_messages), Nothing).db)
         ELSE Returned(response_data, tbl)

\* forward_azure_regular_request, forward_openrouter_regular_request and
\* forward_local_regular_request from the point where the POST to provider
\* p is answered by resp: what is raised or returned, and the table after
forward_regular_request(p, tbl, req, resp) ==
    IF resp.kind = "RequestError"
    THEN Raised(HTTPException(500, <<ProviderName(p), " connection error: ", resp.text>>), tbl)
    ELSE IF resp.status_code /= 200
    THEN Raised(StatusError(p, req, resp), tbl)
    ELSE IF ~IsJson(resp.text)
    THEN Raised(PyError("JSONDecodeError", <<"Expecting value">>), tbl)
    ELSE
      LET data == json_loads(resp.text)
          has_choices == "choices" \in DOMAIN data /\ Len(data.choices) > 0
          response_data ==
              IF has_choices
              THEN [data EXCEPT !.choices[1].message.content =
                                   enhance_text_with_markdown(@)]
              ELSE data
      IN IF Truthy(req.chat_id) /\ get_chat(tbl, req.chat_id) /= Nothing
         THEN IF ~has_choices
              THEN Raised(PyError("KeyError", <<"'choices'">>), tbl)
              ELSE LET ai_message == response_data.choices[1].message
                       existing_messages ==
                           StoredMessages(tbl, req.chat_id)
                           \o AsDicts(req.messages)
                           \o <<Message(ai_message.role, ai_message.content)>>
                   IN Returned(response_data,
                               update_chat(tbl, req.chat_id, Nothing,
                                           Some(existing_messages), Nothing).db)
         ELSE Returned(response_data, tbl)

\* mutant: only Azure fails over
FailoverTarget_one_way(p) ==
    IF p = "azure" /\ OPENROUTER_API_KEY THEN "openrouter" ELSE None

\* mutant: Local takes part in runtime failover as it does before sending
FailoverTarget_with_local(p) ==
    IF p = "azure" /\ OPENROUTER_API_KEY THEN "openrouter"
    ELSE IF p = "openrouter" /\ AZURE_API_KEY /\ AZURE_ENDPOINT THEN "azure"
    ELSE IF p = "local" /\ AZURE_API_KEY /\ AZURE_ENDPOINT THEN "azure"
    ELSE None

\* mutant: the other provider is tried whether it is configured or not
FailoverTarget_unchecked(p) ==
    IF p = "azure" THEN "openrouter"
    ELSE IF p = "openrouter" THEN "azure"
    ELSE None

\* the except block of chat_completions: the provider that is tried after
\* provider p failed, or None
FailoverTarget(p) ==
    IF p = "azure" /\ OPENROUTER_API_KEY THEN "openrouter"
    ELSE IF p = "openrouter" /\ AZURE_API_KEY /\ AZURE_ENDPOINT THEN "azure"
    ELSE None

\* ------------------------------------------------------- streaming chunks
\* A chunk of response.aiter_text() is its first six characters (head) and
\* the rest (tail): chunk.startswith("data: ") reads the head, chunk[6:] is
\* the tail.
DataMarker == <<"d", "a", "t", "a", ":", " ">>
DoneTag == <<"[", "D", "O", "N", "E", "]">>
Chunk(head, tail) == [head |-> head, tail |-> tail]

Delta(d) == json_dumps([choices |-> <<[delta |-> d]>>])
C_Hi == Chunk(DataMarker, Delta([content |-> T_Hi]))
C_there == Chunk(DataMarker, Delta([content |-> T_there]))
C_role == Chunk(DataMarker, Delta([role |-> "assistant"]))
C_cut == Chunk(DataMarker, <<"{", "c", "h", "o">>)
C_DONE == Chunk(DataMarker, DoneTag \o <<"\n", "\n">>)
C_ping == Chunk(<<":", " ", "p", "i", "n", "g">>, <<"\n", "\n">>)

\* the chunks an upstream may send
Chunks == {C_Hi, C_there, C_role, C_cut, C_DONE, C_ping}

\* chunk.strip() == "data: [DONE]", for a chunk that starts with "data: "
StripIsDone(chunk) == ~IsJson(chunk.tail) /\ rstrip(chunk.tail) = DoneTag

\* mutant: a chunk that fails to parse resets the transcript
Accumulate_reset(chat_id, full, chunk) ==
    IF /\ Truthy(chat_id)
       /\ chunk.head = DataMarker
       /\ ~startswith(chunk.tail, DoneTag)
    THEN IF ~IsJson(chunk.tail)
         THEN <<>>
         ELSE LET data == json_loads(chunk.tail)
              IN IF "choices" \in DOMAIN data /\ Len(data.choices) > 0
                    /\ "delta" \in DOMAIN data.choices[1]
                    /\ "content" \in DOMAIN data.choices[1].delta
                 THEN full \o data.choices[1].delta.content
                 ELSE full
    ELSE full

\* the body of the `async for` loop before `yield chunk`: the transcript
\* after chunk has been looked at
Accumulate(chat_id, full, chunk) ==
    IF /\ Truthy(chat_id)
       /\ chunk.head = DataMarker
       /\ ~startswith(chunk.tail, DoneTag)
    THEN IF ~StripIsDone(chunk)
         THEN IF ~IsJson(chunk.tail)
              THEN full                        \* json.loads raised: except: pass
              ELSE LET data == json_loads(chunk.tail)
                   IN IF "choices" \in DOMAIN data /\ Len(data.choices) > 0
                      THEN LET delta == IF "delta" \in DOMAIN data.choices[1]
                                        THEN data.choices[1].delta
                                        ELSE <<>>
                           IN IF "content" \in DOMAIN delta
                              THEN full \o delta.content
                              ELSE full
                      ELSE full
         ELSE full
    ELSE full

\* the synthetic server-sent event a generator yields for an error
ErrorEvent(msg) == Chunk(DataMarker, json_dumps([error |-> msg]))

StatusEventText(p) ==
    CASE p = "azure" -> "Azure error: Status "
      [] p = "openrouter" -> "OpenRouter error: Status "
      [] p = "local" -> "Local server error: Status "

\* ---------------------------------------------------------------- state
M_user == Message("user", T_ciao)
M_system == Message("system", T_sys)
M_old == Message("user", T_old)

\* the message lists a caller may send
MessageLists == {<<M_user>>, <<M_system, M_user>>}

\* the completion requests a caller may send
Requests ==
    [model : {T_gpt4},
     messages : MessageLists,
     stream : BOOLEAN,
     chat_id : {None, "0", "1", "2"},
     provider : {None, "azure", "openrouter", "local", "gemini"}]

NoRequest ==
    [model |-> T_gpt4, messages |-> <<>>, stream |-> FALSE, chat_id |-> None,
     provider |-> None]
NoResult == [kind |-> "none", status_code |-> 0, body |-> <<>>]
NoException == PyError("none", <<>>)

TypeOK ==
    /\ env \in BOOLEAN \X BOOLEAN \X BOOLEAN \X BOOLEAN
    /\ DOMAIN chats \subseteq {"1", "2"}
    /\ \A r \in Reqs :
          /\ pc[r] \in {"off", "start", "await", "await_fallback", "generator",
                        "open", "relay", "done", "upstream_error", "cancelled"}
          /\ provider[r] \in SUPPORTED_PROVIDERS \cup {None}
          /\ attempt[r] \in SUPPORTED_PROVIDERS \cup {None}
          /\ Len(upstream[r]) <= MaxChunks
    /\ \A k \in Clients : cpc[k] \in {"off", "idle", "read"}

\* the projects that were created
Projects == {1, 2}

\* no request has reached the RAG step of chat_completions
Unassembled ==
    /\ retrieval = [r \in Reqs |-> "none"]
    /\ messages_to_send = [r \in Reqs |-> <<>>]

\* no chunk_text call and no retrieval call is under way, nothing is ingested;
\* the connections are opened without PRAGMA foreign_keys, and SQLite as
\* usually built does not enforce foreign keys then
NoSearch == [query |-> <<>>, project_id |-> 0, top_k |-> 0, outcome |-> "none"]
ChunkerIdle ==
    /\ document = <<>>
    /\ size = DEFAULT_CHUNK_SIZE
    /\ produced = <<>>
    /\ kpc = "off"
RagEmpty ==
    /\ rag_documents = <<>>
    /\ rag_chunks = <<>>
    /\ sequence = [rag_documents |-> 0, rag_chunks |-> 0]
    /\ searched = NoSearch
    /\ rag_context = <<>>
    /\ retrieved = <<>>
    /\ projects = Projects
    /\ foreign_keys = FALSE
    /\ response = NoResult
EnhancerIdle ==
    /\ reply = <<>>
    /\ enhanced = <<>>
LibraryIdle == ChunkerIdle /\ EnhancerIdle /\ RagEmpty

\* one request has arrived; chat "1" exists and holds one earlier message,
\* chat "2" does not exist; the API clients are absent
Init ==
    /\ AZURE_API_KEY \in BOOLEAN
    /\ AZURE_ENDPOINT \in BOOLEAN
    /\ OPENROUTER_API_KEY \in BOOLEAN
    /\ LOCAL_ENDPOINT \in BOOLEAN
    /\ chats = ("1" :> ChatRow(1, T_old, <<>>, <<M_old>>))
    /\ \E req \in Requests :
          request = [r \in Reqs |-> IF r = "r1" THEN req ELSE NoRequest]
    /\ pc = [r \in Reqs |-> IF r = "r1" THEN "start" ELSE "off"]
    /\ provider = [r \in Reqs |-> None]
    /\ attempt = [r \in Reqs |-> None]
    /\ status = [r \in Reqs |-> 0]
    /\ calls = [r \in Reqs |-> <<>>]
    /\ answers = [r \in Reqs |-> <<>>]
    /\ exc = [r \in Reqs |-> NoException]
    /\ result = [r \in Reqs |-> NoResult]
    /\ upstream = [r \in Reqs |-> <<>>]
    /\ yielded = [r \in Reqs |-> <<>>]
    /\ full_response = [r \in Reqs |-> <<>>]
    /\ Unassembled
    /\ cpc = [k \in Clients |-> "off"]
    /\ held = [k \in Clients |-> <<>>]
    /\ rounds = [k \in Clients |-> 0]
    /\ writes = <<>>
    /\ LibraryIdle

\* ------------------------------------------------------------- responses
JSONResponse(body) == [kind |-> "json", status_code |-> 200, body |-> body]
ErrorResponse(e) ==
    [kind |-> "error", status_code |-> e.status_code, body |-> e.detail]
StreamingResponse == [kind |-> "stream", status_code |-> 200, body |-> <<>>]

\* ---------------------------------------------------------------- actions
\* user_query: the content of the last user-role message of the request,
\* "" when it has none
user_query(messages) ==
    LET user_messages == SelectSeq(messages, LAMBDA msg : msg.role = "user")
    IN IF user_messages = <<>> THEN <<>>
       ELSE user_messages[Len(user_messages)].content

\* the base instructions, and the two pieces the f-string puts around the
\* retrieved context
base_system ==
    <<"You are KrakenGPT, a powerful AI assistant [...] properly formatted with markdown">>
CONTEXT_HEADER ==
    <<"\n\n", "**CONTEXTUAL INFORMATION AVAILABLE** [...]",
      "\n\n--- RETRIEVED CONTEXT ---\n">>
CONTEXT_FOOTER ==
    <<"\n--- END CONTEXT ---\n\n", "ENHANCED RESPONSE INSTRUCTIONS: [...]">>

\* mutant: the context section is written whatever was retrieved
enhanced_system_always(rag_used, context) ==
    base_system \o CONTEXT_HEADER \o context \o CONTEXT_FOOTER

\* enhanced_system: the synthesized system message
enhanced_system(rag_used, context) ==
    IF rag_used /\ context /= <<>>
    THEN base_system \o CONTEXT_HEADER \o context \o CONTEXT_FOOTER
    ELSE base_system

\* mutant: the system messages of the caller are sent as well
assemble_keep_system(messages, system) ==
    <<Message("system", system)>> \o messages

\* messages_to_send: the synthesized system message, then the messages of
\* the request that are no system messages
assemble(messages, system) ==
    <<Message("system", system)>>
        \o SelectSeq(messages, LAMBDA msg : msg["role"] /= "system")

\* the RAG step of chat_completions: how it ended and with which context.
\* raised says whether something raised inside its try (db.get_chat on a
\* database it cannot read, the encoder inside rag.search); its
\* except Exception logs that and goes on with rag_context = ""
rag_step(req, tbl, documents, chunks, raised) ==
    LET query == user_query(req.messages)
        chat == get_chat(tbl, req.chat_id)
        project_id == (CHOOSE c \in chat : TRUE).project_id
    IN IF ~(Truthy(req.chat_id) /\ strip(query) /= <<>>)
       THEN [outcome |-> "not_attempted", context |-> <<>>]
       ELSE IF raised
       THEN [outcome |-> "raised", context |-> <<>>]
       ELSE IF chat = Nothing \/ project_id = 0
       THEN [outcome |-> "not_attempted", context |-> <<>>]
       ELSE IF get_project_stats(documents, chunks, project_id).documents = 0
       THEN [outcome |-> "not_attempted", context |-> <<>>]
       ELSE LET context == search(documents, chunks, query, project_id,
                                  DEFAULT_TOP_K)
            IN [outcome |-> IF context = <<>> THEN "empty" ELSE "returned",
                context |-> context]

\* chat_completions from its start to its first await: run the RAG step,
\* build messages_to_send, validate and resolve the provider, then call the
\* provider's forward_* function, which posts (non-streamed) or wraps its
\* generator in a StreamingResponse (streamed)
chat_completions(r) ==
    /\ pc[r] = "start"
    /\ \E raised \in BOOLEAN :
          LET req == request[r]
              step == rag_step(req, chats, rag_documents, rag_chunks, raised)
              rag_used == step.outcome = "returned"
          IN /\ retrieval' = [retrieval EXCEPT ![r] = step.outcome]
             /\ messages_to_send' = [messages_to_send EXCEPT ![r] =
                   assemble(req.messages, enhanced_system(rag_used, step.context))]
             /\ IF step.outcome \in {"empty", "returned"}
                THEN LET project_id ==
                            (CHOOSE c \in get_chat(chats, req.chat_id) : TRUE).project_id
                     IN /\ searched' = [query |-> user_query(req.messages),
                                        project_id |-> project_id,
                                        top_k |-> DEFAULT_TOP_K,
                                        outcome |-> "returned"]
                        /\ retrieved' = relevant_chunks(rag_documents, rag_chunks,
                                           user_query(req.messages), project_id,
                                           DEFAULT_TOP_K)
                        /\ rag_context' = step.context
                ELSE UNCHANGED <<searched, retrieved, rag_context>>
    /\ LET req == request[r]
           selected == SelectedProvider(req)
           resolved == ResolveProvider(selected)
       IN IF selected \notin SUPPORTED_PROVIDERS
          THEN /\ result' = [result EXCEPT ![r] = ErrorResponse(
                      HTTPException(400, <<"Unsupported provider: ", selected>>))]
               /\ pc' = [pc EXCEPT ![r] = "done"]
               /\ UNCHANGED <<provider, attempt, calls>>
          ELSE IF resolved = Raise
          THEN /\ result' = [result EXCEPT ![r] = ErrorResponse(NoProviderConfigured)]
               /\ pc' = [pc EXCEPT ![r] = "done"]
               /\ UNCHANGED <<provider, attempt, calls>>
          ELSE /\ provider' = [provider EXCEPT ![r] = resolved]
               /\ attempt' = [attempt EXCEPT ![r] = resolved]
               /\ IF req.stream
                  THEN /\ result' = [result EXCEPT ![r] = StreamingResponse]
                       /\ pc' = [pc EXCEPT ![r] = "generator"]
                       /\ UNCHANGED calls
                  ELSE /\ calls' = [calls EXCEPT ![r] = Append(@, resolved)]
                       /\ pc' = [pc EXCEPT ![r] = "await"]
                       /\ UNCHANGED result
    /\ UNCHANGED <<purevars, rag_documents, rag_chunks, sequence, projects,
                   foreign_keys, response, env, chats, request, status, answers,
                   exc, upstream, yielded, full_response, clientvars>>

\* mutant: the first error is dropped from the message
BothFailed_second_only(e, fallback_error) ==
    HTTPException(500, <<"Both providers failed: ", str(fallback_error)>>)

\* the HTTPException raised when the fallback provider failed as well
BothFailed(e, fallback_error) ==
    HTTPException(500, <<"Both providers failed: ", str(e), " | ",
                         str(fallback_error)>>)

\* the awaited POST of the first forward_*_regular_request is answered; on
\* an exception the except block of chat_completions runs up to its await
forward_regular_answered(r) ==
    /\ pc[r] = "await"
    /\ \E resp \in RegularAnswers :
          LET out == forward_regular_request(attempt[r], chats, request[r], resp)
              target == FailoverTarget(provider[r])
          IN /\ answers' = [answers EXCEPT ![r] = Append(@, resp)]
             /\ chats' = out.db
             /\ IF ~out.raised
                THEN /\ result' = [result EXCEPT ![r] = JSONResponse(out.value)]
                     /\ pc' = [pc EXCEPT ![r] = "done"]
                     /\ UNCHANGED <<exc, attempt, calls>>
                ELSE /\ exc' = [exc EXCEPT ![r] = out.exc]
                     /\ IF target = None
                        THEN /\ result' = [result EXCEPT ![r] = ErrorResponse(
                                              HTTPException(500, str(out.exc)))]
                             /\ pc' = [pc EXCEPT ![r] = "done"]
                             /\ UNCHANGED <<attempt, calls>>
                        ELSE /\ attempt' = [attempt EXCEPT ![r] = target]
                             /\ IF request[r].stream
                                THEN /\ result' = [result EXCEPT ![r] = StreamingResponse]
                                     /\ pc' = [pc EXCEPT ![r] = "generator"]
                                     /\ UNCHANGED calls
                                ELSE /\ calls' = [calls EXCEPT ![r] = Append(@, target)]
                                     /\ pc' = [pc EXCEPT ![r] = "await_fallback"]
                                     /\ UNCHANGED result
    /\ UNCHANGED <<libvars, asmvars, env, request, provider, status, upstream, yielded,
                   full_response, clientvars>>

\* the awaited POST of the fallback forward_*_regular_request is answered
fallback_regular_answered(r) ==
    /\ pc[r] = "await_fallback"
    /\ \E resp \in RegularAnswers :
          LET out == forward_regular_request(attempt[r], chats, request[r], resp)
          IN /\ answers' = [answers EXCEPT ![r] = Append(@, resp)]
             /\ chats' = out.db
             /\ result' = [result EXCEPT ![r] =
                   IF ~out.raised THEN JSONResponse(out.value)
                   ELSE ErrorResponse(BothFailed(exc[r], out.exc))]
    /\ pc' = [pc EXCEPT ![r] = "done"]
    /\ UNCHANGED <<libvars, asmvars, env, request, provider, attempt, status, calls, exc, upstream,
                   yielded, full_response, clientvars>>

\* mutant: only the messages of role user are stored
store_user_messages_role_user(tbl, chat_id, messages) ==
    IF Truthy(chat_id) /\ get_chat(tbl, chat_id) /= Nothing
    THEN update_chat(tbl, chat_id, Nothing,
                     Some(StoredMessages(tbl, chat_id)
                          \o SelectSeq(messages, LAMBDA m : m.role = "user")),
                     Nothing).db
    ELSE tbl

\* "Store user messages if chat_id is provided": the table after the block
store_user_messages(tbl, chat_id, messages) ==
    IF Truthy(chat_id) /\ get_chat(tbl, chat_id) /= Nothing
    THEN update_chat(tbl, chat_id, Nothing,
                     Some(StoredMessages(tbl, chat_id) \o AsDicts(messages)),
                     Nothing).db
    ELSE tbl

\* mutant: the transcript is stored even when it is empty
store_full_response_always(tbl, chat_id, full) ==
    IF Truthy(chat_id) /\ get_chat(tbl, chat_id) /= Nothing
    THEN update_chat(tbl, chat_id, Nothing,
                     Some(StoredMessages(tbl, chat_id)
                          \o <<Message("assistant", full)>>),
                     Nothing).db
    ELSE tbl

\* "Store the full AI response if chat_id is provided": the table after
store_full_response(tbl, chat_id, full) ==
    IF Truthy(chat_id) /\ full /= <<>> /\ get_chat(tbl, chat_id) /= Nothing
    THEN update_chat(tbl, chat_id, Nothing,
                     Some(StoredMessages(tbl, chat_id)
                          \o <<Message("assistant", full)>>),
                     Nothing).db
    ELSE tbl

\* mutant: only server errors are rejected
Rejected_5xx(resp) == resp.status_code >= 500

\* mutant: the yield sits inside the parse branch
relay_parsed_only(chunk) ==
    IF chunk.head = DataMarker /\ IsJson(chunk.tail) THEN <<chunk>> ELSE <<>>

\* `if response.status_code != 200:` in stream_generator
Rejected(resp) == resp.status_code /= 200

\* `yield chunk` in the loop: what the caller is sent for an upstream chunk
relay(chunk) == <<chunk>>

\* the server starts to iterate stream_generator: http_client.stream(...)
\* is entered and the request goes out
stream_generator_start(r) ==
    /\ pc[r] = "generator"
    /\ calls' = [calls EXCEPT ![r] = Append(@, attempt[r])]
    /\ full_response' = [full_response EXCEPT ![r] = <<>>]
    /\ pc' = [pc EXCEPT ![r] = "open"]
    /\ UNCHANGED <<libvars, asmvars, env, chats, request, provider, attempt, status, answers, exc, result,
                   upstream, yielded, clientvars>>

\* mutant: a rejected stream request is sent to the failover target
stream_opened_failover(r) ==
    /\ pc[r] = "open"
    /\ \E resp \in StreamAnswers :
          IF resp.kind = "RequestError"
          THEN /\ yielded' = [yielded EXCEPT ![r] = Append(@, ErrorEvent(
                      <<ProviderName(attempt[r]), " streaming error: ", resp.text>>))]
               /\ pc' = [pc EXCEPT ![r] = "upstream_error"]
               /\ UNCHANGED <<chats, status, attempt, calls>>
          ELSE /\ status' = [status EXCEPT ![r] = resp.status_code]
               /\ IF Rejected(resp) /\ Len(calls[r]) = 1
                     /\ FailoverTarget(attempt[r]) /= None
                  THEN /\ attempt' = [attempt EXCEPT ![r] = FailoverTarget(@)]
                       /\ calls' = [calls EXCEPT ![r] =
                                       Append(@, FailoverTarget(attempt[r]))]
                       /\ UNCHANGED <<chats, yielded, pc>>
                  ELSE IF Rejected(resp)
                  THEN /\ yielded' = [yielded EXCEPT ![r] = Append(@, ErrorEvent(
                              <<StatusEventText(attempt[r]), ToString(resp.status_code)>>))]
                       /\ pc' = [pc EXCEPT ![r] = "upstream_error"]
                       /\ UNCHANGED <<chats, attempt, calls>>
                  ELSE /\ chats' = store_user_messages(chats, request[r].chat_id,
                                                       request[r].messages)
                       /\ pc' = [pc EXCEPT ![r] = "relay"]
                       /\ UNCHANGED <<yielded, attempt, calls>>
    /\ UNCHANGED <<libvars, asmvars, env, request, provider, answers, exc, result, upstream,
                   full_response, clientvars>>

\* mutant: the messages of the request are stored before the status of the
\* answer is looked at
stream_opened_store_first(r) ==
    /\ pc[r] = "open"
    /\ \E resp \in StreamAnswers :
          IF resp.kind = "RequestError"
          THEN /\ yielded' = [yielded EXCEPT ![r] = Append(@, ErrorEvent(
                      <<ProviderName(attempt[r]), " streaming error: ", resp.text>>))]
               /\ pc' = [pc EXCEPT ![r] = "upstream_error"]
               /\ UNCHANGED <<chats, status>>
          ELSE /\ status' = [status EXCEPT ![r] = resp.status_code]
               /\ chats' = store_user_messages(chats, request[r].chat_id,
                                               request[r].messages)
               /\ IF Rejected(resp)
                  THEN /\ yielded' = [yielded EXCEPT ![r] = Append(@, ErrorEvent(
                              <<StatusEventText(attempt[r]), ToString(resp.status_code)>>))]
                       /\ pc' = [pc EXCEPT ![r] = "upstream_error"]
                  ELSE /\ pc' = [pc EXCEPT ![r] = "relay"]
                       /\ UNCHANGED yielded
    /\ UNCHANGED <<libvars, asmvars, env, request, provider, attempt, calls, answers, exc, result, upstream,
                   full_response, clientvars>>

\* the upstream answers the stream request (or the connection fails): the
\* generator runs up to its first read of response.aiter_text()
stream_opened(r) ==
    /\ pc[r] = "open"
    /\ \E resp \in StreamAnswers :
          IF resp.kind = "RequestError"
          THEN /\ yielded' = [yielded EXCEPT ![r] = Append(@, ErrorEvent(
                      <<ProviderName(attempt[r]), " streaming error: ", resp.text>>))]
               /\ pc' = [pc EXCEPT ![r] = "upstream_error"]
               /\ UNCHANGED <<chats, status>>
          ELSE /\ status' = [status EXCEPT ![r] = resp.status_code]
               /\ IF Rejected(resp)
                  THEN /\ yielded' = [yielded EXCEPT ![r] = Append(@, ErrorEvent(
                              <<StatusEventText(attempt[r]), ToString(resp.status_code)>>))]
                       /\ pc' = [pc EXCEPT ![r] = "upstream_error"]
                       /\ UNCHANGED chats
                  ELSE /\ chats' = store_user_messages(chats, request[r].chat_id,
                                                       request[r].messages)
                       /\ pc' = [pc EXCEPT ![r] = "relay"]
                       /\ UNCHANGED yielded
    /\ UNCHANGED <<libvars, asmvars, env, request, provider, attempt, calls, answers, exc, result, upstream,
                   full_response, clientvars>>

\* one pass of `async for chunk in response.aiter_text()`, with the chunk
\* that was read
stream_chunk_read(r, chunk) ==
    /\ pc[r] = "relay"
    /\ Len(upstream[r]) < MaxChunks
    /\ upstream' = [upstream EXCEPT ![r] = Append(@, chunk)]
    /\ full_response' = [full_response EXCEPT ![r] =
                            Accumulate(request[r].chat_id, @, chunk)]
    /\ yielded' = [yielded EXCEPT ![r] = @ \o relay(chunk)]
    /\ UNCHANGED <<libvars, asmvars, env, chats, request, pc, provider, attempt, status, calls, answers, exc,
                   result, clientvars>>

stream_chunk(r) == \E chunk \in Chunks : stream_chunk_read(r, chunk)

\* mutant: the transcript is appended to the list the handler read when the
\* request arrived, and that list is written
stream_end_stale(r) ==
    /\ pc[r] = "relay"
    /\ chats' = IF Truthy(request[r].chat_id) /\ full_response[r] /= <<>>
                   /\ get_chat(chats, request[r].chat_id) /= Nothing
                THEN update_chat(chats, request[r].chat_id, Nothing,
                                 Some(<<Message("user", T_old)>>
                                      \o AsDicts(request[r].messages)
                                      \o <<Message("assistant", full_response[r])>>),
                                 Nothing).db
                ELSE chats
    /\ pc' = [pc EXCEPT ![r] = "done"]
    /\ UNCHANGED <<libvars, asmvars, env, request, provider, attempt, status, calls, answers, exc, result,
                   upstream, yielded, full_response, clientvars>>

\* the upstream stream ends: the loop exits and the transcript is stored
stream_end(r) ==
    /\ pc[r] = "relay"
    /\ chats' = store_full_response(chats, request[r].chat_id, full_response[r])
    /\ pc' = [pc EXCEPT ![r] = "done"]
    /\ UNCHANGED <<libvars, asmvars, env, request, provider, attempt, status, calls, answers, exc, result,
                   upstream, yielded, full_response, clientvars>>

\* mutant: the transcript read so far is stored when the stream breaks
stream_broken_stores(r) ==
    /\ pc[r] = "relay"
    /\ yielded' = [yielded EXCEPT ![r] = Append(@, ErrorEvent(
            <<ProviderName(attempt[r]), " streaming error: ", T_timeout>>))]
    /\ chats' = store_full_response(chats, request[r].chat_id, full_response[r])
    /\ pc' = [pc EXCEPT ![r] = "upstream_error"]
    /\ UNCHANGED <<libvars, asmvars, env, request, provider, attempt, status, calls, answers, exc,
                   result, upstream, full_response, clientvars>>

\* reading the next chunk raises: `except Exception` yields an error event
stream_broken(r) ==
    /\ pc[r] = "relay"
    /\ yielded' = [yielded EXCEPT ![r] = Append(@, ErrorEvent(
            <<ProviderName(attempt[r]), " streaming error: ", T_timeout>>))]
    /\ pc' = [pc EXCEPT ![r] = "upstream_error"]
    /\ UNCHANGED <<libvars, asmvars, env, chats, request, provider, attempt, status, calls, answers, exc,
                   result, upstream, full_response, clientvars>>

\* mutant: a disconnect lets the generator run its completion path
client_disconnect_completes(r) ==
    /\ pc[r] \in {"open", "relay"}
    /\ pc' = [pc EXCEPT ![r] = "cancelled"]
    /\ chats' = store_full_response(chats, request[r].chat_id, full_response[r])
    /\ UNCHANGED <<libvars, asmvars, env, request, provider, attempt, status, calls, answers, exc,
                   result, upstream, yielded, full_response, clientvars>>

\* the caller disconnects: the server cancels the task that iterates the
\* generator, CancelledError is raised at the await the generator waits in,
\* and `except Exception` does not catch it
client_disconnect(r) ==
    /\ pc[r] \in {"open", "relay"}
    /\ pc' = [pc EXCEPT ![r] = "cancelled"]
    /\ UNCHANGED <<libvars, asmvars, env, chats, request, provider, attempt, status, calls, answers, exc,
                   result, upstream, yielded, full_response, clientvars>>

\* ------------------------------------------------------------ API clients
\* A client of the chat API updates a chat by GET /api/chats/{id}, appending
\* to the list it got, and PUT /api/chats/{id} with the longer list.  The two
\* endpoints are plain `def` handlers: each runs in a worker thread, and each
\* database call is one transaction.
ClientChat == "1"
ClientMessage(k) == IF k = "A" THEN Message("user", T_a) ELSE Message("user", T_b)

\* GET /api/chats/{chat_id}: get_chat
api_get_chat(k) ==
    /\ cpc[k] = "idle"
    /\ rounds[k] < MaxRounds
    /\ get_chat(chats, ClientChat) /= Nothing
    /\ held' = [held EXCEPT ![k] = StoredMessages(chats, ClientChat)]
    /\ cpc' = [cpc EXCEPT ![k] = "read"]
    /\ UNCHANGED <<libvars, asmvars, env, chats, reqvars, rounds, writes>>

\* PUT /api/chats/{chat_id}: update_chat, with the list read plus one message
api_update_chat(k) ==
    /\ cpc[k] = "read"
    /\ LET messages == held[k] \o <<ClientMessage(k)>>
           out == update_chat(chats, ClientChat, Nothing, Some(messages), Nothing)
       IN /\ chats' = out.db
          /\ writes' = Append(writes, [client |-> k, read |-> held[k],
                                       messages |-> messages,
                                       success |-> out.success])
    /\ rounds' = [rounds EXCEPT ![k] = @ + 1]
    /\ cpc' = [cpc EXCEPT ![k] = "idle"]
    /\ UNCHANGED <<libvars, asmvars, env, reqvars, held>>

Next ==
    \E r \in Reqs :
        \/ chat_completions(r)
        \/ forward_regular_answered(r)
        \/ fallback_regular_answered(r)
        \/ stream_generator_start(r)
        \/ stream_opened(r)
        \/ stream_chunk(r)
        \/ stream_end(r)
        \/ stream_broken(r)
        \/ client_disconnect(r)

Spec == Init /\ [][Next]_vars

\* Two API clients update chat "1", which starts with no messages; no
\* completion request is in flight.
InitRace ==
    /\ AZURE_API_KEY = TRUE
    /\ AZURE_ENDPOINT = TRUE
    /\ OPENROUTER_API_KEY = TRUE
    /\ LOCAL_ENDPOINT = TRUE
    /\ chats = ("1" :> ChatRow(1, T_old, <<>>, <<>>))
    /\ request = [r \in Reqs |-> NoRequest]
    /\ pc = [r \in Reqs |-> "off"]
    /\ provider = [r \in Reqs |-> None]
    /\ attempt = [r \in Reqs |-> None]
    /\ status = [r \in Reqs |-> 0]
    /\ calls = [r \in Reqs |-> <<>>]
    /\ answers = [r \in Reqs |-> <<>>]
    /\ exc = [r \in Reqs |-> NoException]
    /\ result = [r \in Reqs |-> NoResult]
    /\ upstream = [r \in Reqs |-> <<>>]
    /\ yielded = [r \in Reqs |-> <<>>]
    /\ full_response = [r \in Reqs |-> <<>>]
    /\ Unassembled
    /\ cpc = [k \in Clients |-> "idle"]
    /\ held = [k \in Clients |-> <<>>]
    /\ rounds = [k \in Clients |-> 0]
    /\ writes = <<>>
    /\ LibraryIdle

NextRace == \E k \in Clients : api_get_chat(k) \/ api_update_chat(k)

SpecRace == InitRace /\ [][NextRace]_vars

\* ------------------------------------------------------ chunk_text alone
\* chunk_text is called on a text of at most MaxDocLen characters with a
\* small chunk_size, so that paragraphs shorter and longer than chunk_size,
\* texts with and without paragraph breaks and blank texts all occur.
Alphabet == {"a", "b", " ", "\n", "\r"}
Documents == UNION {[1..n -> Alphabet] : n \in 0..MaxDocLen}
ChunkSizes == {2, 4}

InitChunk ==
    /\ AZURE_API_KEY = TRUE
    /\ AZURE_ENDPOINT = TRUE
    /\ OPENROUTER_API_KEY = TRUE
    /\ LOCAL_ENDPOINT = TRUE
    /\ chats = <<>>
    /\ request = [r \in Reqs |-> NoRequest]
    /\ pc = [r \in Reqs |-> "off"]
    /\ provider = [r \in Reqs |-> None]
    /\ attempt = [r \in Reqs |-> None]
    /\ status = [r \in Reqs |-> 0]
    /\ calls = [r \in Reqs |-> <<>>]
    /\ answers = [r \in Reqs |-> <<>>]
    /\ exc = [r \in Reqs |-> NoException]
    /\ result = [r \in Reqs |-> NoResult]
    /\ upstream = [r \in Reqs |-> <<>>]
    /\ yielded = [r \in Reqs |-> <<>>]
    /\ full_response = [r \in Reqs |-> <<>>]
    /\ Unassembled
    /\ cpc = [k \in Clients |-> "off"]
    /\ held = [k \in Clients |-> <<>>]
    /\ rounds = [k \in Clients |-> 0]
    /\ writes = <<>>
    /\ document \in Documents
    /\ size \in ChunkSizes
    /\ produced = <<>>
    /\ kpc = "call"
    /\ EnhancerIdle
    /\ RagEmpty

\* chunks = self.chunk_text(content), with the chunk_size of the call
call_chunk_text ==
    /\ kpc = "call"
    /\ produced' = chunk_text(document, size)
    /\ kpc' = "returned"
    /\ UNCHANGED <<env, chats, reqvars, clientvars, ragvars, markvars, document,
                   size>>

NextChunk == call_chunk_text

SpecChunk == InitChunk /\ [][NextChunk]_vars

\* ------------------------------------------------- ingestion and retrieval
\* Documents of a small catalogue are ingested into two projects and deleted
\* again, and search is called between these operations. Every document is
\* shorter than a chunk; one is blank. The value a search returned is
\* forgotten when the next operation begins.
Queries == {Q_uno, Q_due}
TopKs == {1, 2, DEFAULT_TOP_K}
Dot_txt == <<".", "t", "x", "t">>
Uploads ==
    {[filename |-> T_alfa \o Dot_txt, content |-> T_alfa],
     [filename |-> T_beta \o Dot_txt, content |-> T_beta],
     [filename |-> T_gamma \o Dot_txt, content |-> T_gamma],
     [filename |-> T_delta \o Dot_txt, content |-> T_delta],
     [filename |-> <<"_">> \o Dot_txt, content |-> T_blank]}

\* the files of the uploads
MIN_UPLOAD == 50
\* two paragraphs that do not fit into one chunk together
T_long == [i \in 1..(DEFAULT_CHUNK_SIZE - 5) |-> "x"] \o ParagraphBreak \o T_beta
Files ==
    {[filename |-> T_alfa \o Dot_txt, content |-> T_alfa, utf8 |-> TRUE],
     [filename |-> <<"x">> \o Dot_txt, content |-> T_long, utf8 |-> TRUE],
     [filename |-> <<"_">> \o Dot_txt, content |-> T_blank, utf8 |-> TRUE],
     [filename |-> <<"x", ".", "p", "d", "f">>, content |-> T_long, utf8 |-> TRUE],
     [filename |-> <<"b">> \o Dot_txt, content |-> <<>>, utf8 |-> FALSE]}

\* self.chunk_text(content), the call with the default chunk_size, for the
\* texts of the two catalogues
Texts == {u.content : u \in Uploads} \cup {f.content : f \in Files}
\* mutant: only the first chunk of a text is kept
chunks_of_first ==
    [content \in Texts |->
        LET chunks == chunk_text(content, DEFAULT_CHUNK_SIZE)
        IN IF chunks = <<>> THEN <<>> ELSE <<Head(chunks)>>]
chunks_of == [content \in Texts |-> chunk_text(content, DEFAULT_CHUNK_SIZE)]

HandlersIdle ==
    /\ AZURE_API_KEY = TRUE
    /\ AZURE_ENDPOINT = TRUE
    /\ OPENROUTER_API_KEY = TRUE
    /\ LOCAL_ENDPOINT = TRUE
    /\ request = [r \in Reqs |-> NoRequest]
    /\ pc = [r \in Reqs |-> "off"]
    /\ provider = [r \in Reqs |-> None]
    /\ attempt = [r \in Reqs |-> None]
    /\ status = [r \in Reqs |-> 0]
    /\ calls = [r \in Reqs |-> <<>>]
    /\ answers = [r \in Reqs |-> <<>>]
    /\ exc = [r \in Reqs |-> NoException]
    /\ result = [r \in Reqs |-> NoResult]
    /\ upstream = [r \in Reqs |-> <<>>]
    /\ yielded = [r \in Reqs |-> <<>>]
    /\ full_response = [r \in Reqs |-> <<>>]
    /\ Unassembled
    /\ cpc = [k \in Clients |-> "off"]
    /\ held = [k \in Clients |-> <<>>]
    /\ rounds = [k \in Clients |-> 0]
    /\ writes = <<>>

ServiceIdle == HandlersIdle /\ chats = <<>>

InitRag == ServiceIdle /\ LibraryIdle

\* the caller of the last search is gone
forget_search ==
    /\ searched' = NoSearch
    /\ rag_context' = <<>>
    /\ retrieved' = <<>>

\* what a call gave its caller: a value, or an exception
Value(v) == [kind |-> "value", status_code |-> 0, body |-> v]
Exception(name) == [kind |-> "raised", status_code |-> 0, body |-> name]

\* what may fail inside add_document once the document row is inserted: the
\* encoder, or the INSERT of a chunk row
Failures == {"none", "encode", "insert"}
RaisedBy(fails) ==
    IF fails = "encode" THEN Exception("RuntimeError")
    ELSE Exception("OperationalError")

\* the encoder and the chunk INSERTs are reached only when the text gives
\* chunks
FailuresOn(content) ==
    IF chunks_of[content] = <<>> THEN {"none"} ELSE Failures

\* mutant: no rollback, the rows inserted before the failure are committed
rag_add_document_partial(project_id, filename, content, fails) ==
    LET doc_id == sequence.rag_documents + 1
        chunks == chunks_of[content]
        n == sequence.rag_chunks
        same == [rag_documents |-> rag_documents, rag_chunks |-> rag_chunks,
                 sequence |-> sequence]
        whole ==
            [rag_documents |-> rag_documents @@
                (doc_id :> [project_id |-> project_id,
                            filename |-> filename,
                            content |-> content]),
             rag_chunks |-> rag_chunks @@
                [c \in (n + 1)..(n + Len(chunks)) |->
                    [document_id |-> doc_id,
                     content |-> chunks[c - n],
                     embedding |-> json_dumps(encode(chunks[c - n]))]],
             sequence |-> [rag_documents |-> doc_id,
                           rag_chunks |-> n + Len(chunks)],
             outcome |-> Value(doc_id)]
    IN IF foreign_keys /\ project_id \notin projects
       THEN same @@ [outcome |-> Exception("IntegrityError")]
       ELSE IF chunks = <<>>
       THEN same @@ [outcome |-> Value(doc_id)]
       ELSE IF fails /= "none"
       THEN [whole EXCEPT !.rag_chunks = rag_chunks,
                          !.sequence.rag_chunks = n,
                          !.outcome = RaisedBy(fails)]
       ELSE whole

\* the tables after SimpleRAG.add_document and what it gives: the document
\* row and one row per chunk are committed together; when the text gives no
\* chunk the function returns before the commit and closing the connection
\* discards the document row; when foreign keys are enforced and the project
\* is missing the first INSERT raises; when the encoder or the INSERT of a
\* chunk row raises, the except block rolls the transaction back (the
\* document row, the chunk rows and the AUTOINCREMENT counters with it) and
\* raises again
rag_add_document(project_id, filename, content, fails) ==
    LET doc_id == sequence.rag_documents + 1
        chunks == chunks_of[content]
        n == sequence.rag_chunks
        same == [rag_documents |-> rag_documents, rag_chunks |-> rag_chunks,
                 sequence |-> sequence]
    IN IF foreign_keys /\ project_id \notin projects
       THEN same @@ [outcome |-> Exception("IntegrityError")]
       ELSE IF chunks = <<>>
       THEN same @@ [outcome |-> Value(doc_id)]
       ELSE IF fails /= "none"
       THEN same @@ [outcome |-> RaisedBy(fails)]
       ELSE [rag_documents |-> rag_documents @@
                (doc_id :> [project_id |-> project_id,
                            filename |-> filename,
                            content |-> content]),
             rag_chunks |-> rag_chunks @@
                [c \in (n + 1)..(n + Len(chunks)) |->
                    [document_id |-> doc_id,
                     content |-> chunks[c - n],
                     embedding |-> json_dumps(encode(chunks[c - n]))]],
             sequence |-> [rag_documents |-> doc_id,
                           rag_chunks |-> n + Len(chunks)],
             outcome |-> Value(doc_id)]

\* a call of SimpleRAG.add_document
add_document(project_id, filename, content) ==
    /\ sequence.rag_documents < MaxDocs
    /\ \E fails \in FailuresOn(content) :
          LET after == rag_add_document(project_id, filename, content, fails)
          IN /\ rag_documents' = after.rag_documents
             /\ rag_chunks' = after.rag_chunks
             /\ sequence' = after.sequence
             /\ response' = after.outcome
    /\ forget_search
    /\ UNCHANGED <<env, chats, reqvars, clientvars, purevars, projects,
                   foreign_keys>>

\* DELETE /api/documents/{document_id}: the chunks of the document and its
\* row are deleted in one transaction; for a document that does not exist
\* the HTTPException 404 is raised inside the try, caught by its
\* except Exception and replaced by a 500
delete_document(document_id) ==
    /\ IF document_id \in DOMAIN rag_documents
       THEN /\ rag_chunks' = [c \in {x \in DOMAIN rag_chunks :
                                        rag_chunks[x].document_id /= document_id} |->
                                 rag_chunks[c]]
            /\ rag_documents' = [d \in DOMAIN rag_documents \ {document_id} |->
                                    rag_documents[d]]
            /\ response' = JSONResponse(<<"Documento ">>
                              \o rag_documents[document_id].filename
                              \o <<" eliminato con successo">>)
       ELSE /\ UNCHANGED <<rag_documents, rag_chunks>>
            /\ response' = ErrorResponse(
                  HTTPException(500, <<"Errore eliminazione documento">>))
    /\ forget_search
    /\ UNCHANGED <<env, chats, reqvars, clientvars, purevars, sequence,
                   projects, foreign_keys>>

\* context = rag.search(query, project_id, top_k)
call_search(query, project_id, top_k) ==
    /\ searched' = [query |-> query, project_id |-> project_id,
                    top_k |-> top_k, outcome |-> "returned"]
    /\ retrieved' = relevant_chunks(rag_documents, rag_chunks, query,
                                    project_id, top_k)
    /\ rag_context' = search(rag_documents, rag_chunks, query, project_id,
                             top_k)
    /\ response' = NoResult
    /\ UNCHANGED <<env, chats, reqvars, clientvars, purevars, rag_documents,
                   rag_chunks, sequence, projects, foreign_keys>>

NextRag ==
    \/ \E project_id \in Projects, upload \in Uploads :
          add_document(project_id, upload.filename, upload.content)
    \/ \E document_id \in 1..MaxDocs : delete_document(document_id)
    \/ \E query \in Queries, project_id \in Projects, top_k \in TopKs :
          call_search(query, project_id, top_k)

SpecRag == InitRag /\ [][NextRag]_vars

\* ------------------------------------------------- two completion requests
\* Two completion requests on chat "1" are handled by the one event loop,
\* streamed or not; every provider is configured. The handlers are
\* coroutines: one runs until its next await (the POST, the opening of the
\* stream, the read of the next chunk), and the database calls between two
\* awaits are synchronous, so each step below runs undisturbed.
M_first == Message("user", T_a)
M_second == Message("user", T_b)
PairRequests(r) ==
    [model : {T_gpt4},
     messages : {IF r = "r1" THEN <<M_first>> ELSE <<M_system, M_second>>},
     stream : BOOLEAN,
     chat_id : {"1"},
     provider : {None}]
PairChunks == {C_Hi, C_DONE}

InitPair ==
    /\ AZURE_API_KEY = TRUE
    /\ AZURE_ENDPOINT = TRUE
    /\ OPENROUTER_API_KEY = TRUE
    /\ LOCAL_ENDPOINT = TRUE
    /\ chats = ("1" :> ChatRow(1, T_old, <<>>, <<M_old>>))
    /\ request \in [Reqs -> UNION {PairRequests(r) : r \in Reqs}]
    /\ \A r \in Reqs : request[r] \in PairRequests(r)
    /\ pc = [r \in Reqs |-> "start"]
    /\ provider = [r \in Reqs |-> None]
    /\ attempt = [r \in Reqs |-> None]
    /\ status = [r \in Reqs |-> 0]
    /\ calls = [r \in Reqs |-> <<>>]
    /\ answers = [r \in Reqs |-> <<>>]
    /\ exc = [r \in Reqs |-> NoException]
    /\ result = [r \in Reqs |-> NoResult]
    /\ upstream = [r \in Reqs |-> <<>>]
    /\ yielded = [r \in Reqs |-> <<>>]
    /\ full_response = [r \in Reqs |-> <<>>]
    /\ Unassembled
    /\ cpc = [k \in Clients |-> "off"]
    /\ held = [k \in Clients |-> <<>>]
    /\ rounds = [k \in Clients |-> 0]
    /\ writes = <<>>
    /\ LibraryIdle

NextPair ==
    \E r \in Reqs :
        \/ chat_completions(r)
        \/ forward_regular_answered(r)
        \/ fallback_regular_answered(r)
        \/ stream_generator_start(r)
        \/ stream_opened(r)
        \/ \E chunk \in PairChunks : stream_chunk_read(r, chunk)
        \/ stream_end(r)
        \/ stream_broken(r)
        \/ client_disconnect(r)

SpecPair == InitPair /\ [][NextPair]_vars

\* ------------------------------------------------------- context assembly
\* One completion request arrives while documents are added to the projects.
\* Chat "1" belongs to project 1; chat "2" has no project (NULL, which
\* chat.get('project_id') treats like 0) or does not exist. The request
\* names a chat or none, and its messages hold system messages of the
\* caller at several places, a blank last user message, or no user message.
M_uno == Message("user", Q_uno)
M_due == Message("user", Q_due)
M_blank == Message("user", T_blank)
M_assistant == Message("assistant", T_ciao)
M_preamble == Message("system", T_old)
AssembleMessages ==
    { <<>>,
      <<M_uno>>,
      <<M_user>>,
      <<M_system>>,
      <<M_system, M_uno>>,
      <<M_uno, M_blank>>,
      <<M_uno, M_assistant>>,
      <<M_due, M_assistant, M_system, M_uno, M_preamble>> }
AssembleRequests ==
    [model : {T_gpt4},
     messages : AssembleMessages,
     stream : BOOLEAN,
     chat_id : {None, "0", "1", "2"},
     provider : {None, "local"}]
AssembleUploads ==
    {[filename |-> <<"a">> \o Dot_txt, content |-> T_alfa],
     [filename |-> <<"c">> \o Dot_txt, content |-> T_gamma]}

InitAssemble ==
    /\ HandlersIdle
    /\ LibraryIdle
    /\ chats \in {("1" :> ChatRow(1, T_old, <<>>, <<M_old>>))
                     @@ ("2" :> ChatRow(0, T_old, <<>>, <<>>)),
                  ("1" :> ChatRow(1, T_old, <<>>, <<M_old>>))}

\* POST /api/chat: the request arrives
request_arrives(r, req) ==
    /\ pc[r] = "off"
    /\ \A q \in Reqs : pc[q] = "off"
    /\ request' = [request EXCEPT ![r] = req]
    /\ pc' = [pc EXCEPT ![r] = "start"]
    /\ UNCHANGED <<libvars, asmvars, env, chats, provider, attempt, status,
                   calls, answers, exc, result, upstream, yielded,
                   full_response, clientvars>>

NextAssemble ==
    \/ \E project_id \in Projects, upload \in AssembleUploads :
          add_document(project_id, upload.filename, upload.content)
    \/ \E req \in AssembleRequests : request_arrives("r1", req)
    \/ chat_completions("r1")

SpecAssemble == InitAssemble /\ [][NextAssemble]_vars

\* ------------------------------------------------- uploads and projects
\* Files are uploaded to two projects, each of which holds a chat; documents
\* and projects are deleted. One file is stored as two chunks, one is shorter
\* than the minimum, one is blank, one is no .txt file and one is no UTF-8.
\* SQLite enforces foreign keys or not, as it was built.
InitIngest ==
    /\ HandlersIdle
    /\ chats = ("1" :> ChatRow(1, T_old, <<>>, <<M_old>>))
                  @@ ("2" :> ChatRow(2, T_old, <<>>, <<>>))
    /\ ChunkerIdle
    /\ EnhancerIdle
    /\ rag_documents = <<>>
    /\ rag_chunks = <<>>
    /\ sequence = [rag_documents |-> 0, rag_chunks |-> 0]
    /\ searched = NoSearch
    /\ rag_context = <<>>
    /\ retrieved = <<>>
    /\ projects = Projects
    /\ foreign_keys \in BOOLEAN
    /\ response = NoResult

\* POST /api/projects/{project_id}/upload-doc: 404 for a missing project and
\* 400 for a file that is no .txt are raised before the try; inside the try
\* a UnicodeDecodeError becomes a 400, and every other exception, the
\* HTTPException 400 of a text that is too short included, is caught by
\* except Exception and becomes a 500
upload_document(project_id, file) ==
    /\ sequence.rag_documents < MaxDocs
    /\ LET text == file.content
           too_small == HTTPException(400,
                           <<"File troppo piccolo (minimo 50 caratteri)">>)
           same == /\ UNCHANGED <<rag_documents, rag_chunks, sequence>>
       IN IF project_id \notin projects
          THEN /\ response' = ErrorResponse(HTTPException(404, <<"Project not found">>))
               /\ same
          ELSE IF ~endswith(lower(file.filename), Dot_txt)
          THEN /\ response' = ErrorResponse(HTTPException(400,
                      <<"Solo file .txt supportati in questa versione">>))
               /\ same
          ELSE IF ~file.utf8
          THEN /\ response' = ErrorResponse(HTTPException(400,
                      <<"Errore lettura file: assicurati che sia UTF-8">>))
               /\ same
          ELSE IF Len(strip(text)) < MIN_UPLOAD
          THEN /\ response' = ErrorResponse(HTTPException(500,
                      <<"Errore processamento: ">> \o str(too_small)))
               /\ same
          ELSE \E fails \in FailuresOn(text) :
               LET after == rag_add_document(project_id, file.filename, text, fails)
               IN /\ rag_documents' = after.rag_documents
                  /\ rag_chunks' = after.rag_chunks
                  /\ sequence' = after.sequence
                  /\ response' =
                        IF after.outcome.kind = "raised"
                        THEN ErrorResponse(HTTPException(500,
                                <<"Errore processamento: ", after.outcome.body>>))
                        ELSE JSONResponse(
                                [doc_id |-> after.outcome.body,
                                 filename |-> file.filename,
                                 stats |-> get_project_stats(after.rag_documents,
                                              after.rag_chunks, project_id)])
    /\ forget_search
    /\ UNCHANGED <<env, chats, reqvars, clientvars, purevars, projects,
                   foreign_keys>>

\* DELETE /api/projects/{project_id} and DatabaseManager.delete_project: the
\* one statement is DELETE FROM projects WHERE id = ?; the chats, documents
\* and chunks of the project go with it when SQLite enforces the foreign
\* keys (ON DELETE CASCADE) and stay when it does not
delete_project(project_id) ==
    /\ IF project_id \notin projects
       THEN /\ response' = ErrorResponse(HTTPException(404, <<"Project not found">>))
            /\ UNCHANGED <<projects, chats, rag_documents, rag_chunks>>
       ELSE /\ projects' = projects \ {project_id}
            /\ response' = JSONResponse(<<"Project deleted successfully">>)
            /\ IF foreign_keys
               THEN LET kept == {d \in DOMAIN rag_documents :
                                    rag_documents[d].project_id /= project_id}
                    IN /\ chats' = [c \in {x \in DOMAIN chats :
                                             chats[x].project_id /= project_id} |->
                                       chats[c]]
                       /\ rag_documents' = [d \in kept |-> rag_documents[d]]
                       /\ rag_chunks' = [c \in {x \in DOMAIN rag_chunks :
                                                  rag_chunks[x].document_id \in kept} |->
                                            rag_chunks[c]]
               ELSE UNCHANGED <<chats, rag_documents, rag_chunks>>
    /\ forget_search
    /\ UNCHANGED <<env, reqvars, clientvars, purevars, sequence, foreign_keys>>

NextIngest ==
    \/ \E project_id \in Projects, file \in Files :
          upload_document(project_id, file)
    \/ \E project_id \in Projects, file \in Files :
          file.utf8 /\ add_document(project_id, file.filename, file.content)
    \/ \E document_id \in 1..MaxDocs : delete_document(document_id)
    \/ \E project_id \in Projects : delete_project(project_id)

SpecIngest == InitIngest /\ [][NextIngest]_vars

\* ------------------------------------------------- malformed embeddings
\* Column embedding of rag_chunks is a free text: rows written by another
\* build of the service may hold a text that is no JSON or a vector of
\* another model. Up to MaxStale chunk rows are overwritten that way between
\* ingestions and searches.
E_truncated == <<"[", "0", ".">>
E_short == json_dumps("w1")
StaleEmbeddings == {E_truncated, E_short}
StaleUploads == {u \in Uploads : u.content \in {T_alfa, T_beta}}
StaleTopKs == {1, DEFAULT_TOP_K}

Stale == {c \in DOMAIN rag_chunks : rag_chunks[c].embedding \in StaleEmbeddings}

\* a chunk row gets an embedding that add_document would not have written
stale_embedding(c, embedding) ==
    /\ c \in DOMAIN rag_chunks
    /\ c \notin Stale
    /\ Cardinality(Stale) < MaxStale
    /\ rag_chunks' = [rag_chunks EXCEPT ![c].embedding = embedding]
    /\ forget_search
    /\ response' = NoResult
    /\ UNCHANGED <<env, chats, reqvars, clientvars, purevars, rag_documents,
                   sequence, projects, foreign_keys>>

NextStale ==
    \/ \E project_id \in Projects, upload \in StaleUploads :
          add_document(project_id, upload.filename, upload.content)
    \/ \E c \in 1..MaxDocs, embedding \in StaleEmbeddings :
          stale_embedding(c, embedding)
    \/ \E project_id \in Projects, top_k \in StaleTopKs :
          call_search(Q_uno, project_id, top_k)

SpecStale == InitRag /\ [][NextStale]_vars

\* ----------------------------------------- enhance_text_with_markdown alone
\* The enhancer is applied to a text and then to its own result. The texts
\* are made of up to MaxPieces pieces, chosen so that every branch of the
\* loop over the lines is taken: headings, list lines, technical words,
\* important words, plain words, markdown indicators, blanks and line ends.
Pieces ==
    {T_nota, capitalize(T_nota), <<"A", "P", "I">>, <<"a", ".", "p", "y">>,
     <<"t", "i", "t", "o", "l", "o", " ", "l", "u", "n", "g", "o", ":">>,
     <<"1", ")", " ", "x">>, <<"*">>, <<"x">>, <<" ">>, <<"\n">>}
RECURSIVE TextsOf(_)
TextsOf(n) ==
    IF n = 0 THEN {<<>>}
    ELSE TextsOf(n - 1) \cup {t \o piece : t \in TextsOf(n - 1), piece \in Pieces}

InitEnhance ==
    /\ HandlersIdle
    /\ chats = <<>>
    /\ ChunkerIdle
    /\ RagEmpty
    /\ reply \in TextsOf(MaxPieces)
    /\ enhanced = <<>>

\* enhanced = enhance_text_with_markdown(text), on the reply first and on the
\* result of the pass before afterwards
call_enhance ==
    /\ Len(enhanced) < MaxPasses
    /\ enhanced' = Append(enhanced, enhance_text_with_markdown(
                      IF enhanced = <<>> THEN reply ELSE enhanced[Len(enhanced)]))
    /\ UNCHANGED <<env, chats, reqvars, clientvars, chunkvars, ragvars, reply>>

NextEnhance == call_enhance

SpecEnhance == InitEnhance /\ [][NextEnhance]_vars

\* ------------------------------------------------------ update_chat alone
\* update_chat is called with every combination of supplied and omitted
\* fields, on the chat that exists and on one that does not; writes records
\* the calls and what they returned.
PatchArguments ==
    [chat_id : {"1", "2"},
     title : {Nothing, Some(T_a)},
     messages : {Nothing, Some(<<>>), Some(<<M_user>>)},
     context : {Nothing, Some(T_b)}]

InitPatch ==
    /\ HandlersIdle
    /\ chats = ("1" :> ChatRow(1, T_old, T_nota, <<M_old>>))
    /\ LibraryIdle

\* success = db.update_chat(chat_id, title=..., messages=..., context=...)
call_update_chat(arguments) ==
    /\ Len(writes) < MaxRounds
    /\ LET out == update_chat(chats, arguments.chat_id, arguments.title,
                              arguments.messages, arguments.context)
       IN /\ chats' = out.db
          /\ writes' = Append(writes, arguments @@ [success |-> out.success])
    /\ UNCHANGED <<libvars, asmvars, env, reqvars, cpc, held, rounds>>

NextPatch == \E arguments \in PatchArguments : call_update_chat(arguments)

SpecPatch == InitPatch /\ [][NextPatch]_vars

\* =================================================================== claims
\* the request has passed the synchronous start of chat_completions
Handled(r) == pc[r] \notin {"off", "start"}

\* the order in which the specification tries the providers, by selection
FallbackOrder(p) ==
    CASE p = "azure" -> <<"azure", "local", "openrouter">>
      [] p = "openrouter" -> <<"openrouter", "local", "azure">>
      [] p = "local" -> <<"local", "azure", "openrouter">>

FirstAvailable(order) ==
    IF available(order[1]) THEN order[1]
    ELSE IF available(order[2]) THEN order[2]
    ELSE IF available(order[3]) THEN order[3]
    ELSE None

NoneAvailable == \A p \in SUPPORTED_PROVIDERS : ~available(p)

\* C1: a handled request with a supported selection is resolved to the first
\* available provider of the fixed order for that selection (the selection
\* itself when it is available), and that provider gets the first upstream
\* call and is contacted by nobody before
C1_PreSendOrder ==
    \A r \in Reqs :
        LET selected == SelectedProvider(request[r]) IN
        (Handled(r) /\ selected \in SUPPORTED_PROVIDERS /\ ~NoneAvailable) =>
            /\ provider[r] = FirstAvailable(FallbackOrder(selected))
            /\ calls[r] /= <<>> => calls[r][1] = FirstAvailable(FallbackOrder(selected))

\* C1 witness: no provider named, Azure unavailable, Local available, and the
\* request went to Local
C1_Witness ==
    \E r \in Reqs :
        /\ request[r].provider = None
        /\ ~available("azure") /\ available("local")
        /\ provider[r] = "local"
        /\ calls[r] = <<"local">>

\* C2: with no provider available a handled request is over, no upstream call
\* was issued for it, nothing was caught or retried, and the caller has an
\* error; for a supported selection it is the 500 naming the settings to set
C2_ConfigError ==
    \A r \in Reqs :
        (Handled(r) /\ NoneAvailable) =>
            /\ pc[r] = "done"
            /\ calls[r] = <<>>
            /\ answers[r] = <<>>
            /\ attempt[r] = None
            /\ exc[r] = NoException
            /\ result[r].kind = "error"
            /\ SelectedProvider(request[r]) \in SUPPORTED_PROVIDERS =>
                  /\ result[r].status_code = 500
                  /\ result[r].body = <<"No provider configured. Please set Azure, Local, or OpenRouter settings.">>

\* C2 witness: Local was selected, nothing is configured, the request failed
C2_Witness ==
    \E r \in Reqs :
        /\ NoneAvailable
        /\ request[r].provider = "local"
        /\ pc[r] = "done"
        /\ result[r].status_code = 500

\* the provider the specification retries against after p failed
Alternate(p) ==
    IF p = "azure" /\ available("openrouter") THEN "openrouter"
    ELSE IF p = "openrouter" /\ available("azure") THEN "azure"
    ELSE None

\* the first dispatch of r has failed before any chunk came back
DispatchFailed(r) ==
    /\ calls[r] /= <<>>
    /\ \/ exc[r] /= NoException
       \/ pc[r] = "upstream_error" /\ upstream[r] = <<>>

\* the answer is a 200 with a completion in it
GoodCompletion(resp) ==
    /\ resp.kind = "response"
    /\ resp.status_code = 200
    /\ IsJson(resp.text)
    /\ "choices" \in DOMAIN json_loads(resp.text)

\* C3 as stated: every request, streamed or not, whose dispatch to Azure
\* (OpenRouter) failed is retried once against OpenRouter (Azure) when that
\* one is configured.  A streamed dispatch never raises into chat_completions
\* (its generator reports the failure as an event), so the except block and
\* its streaming branches never run for it.
C3_Original ==
    \A r \in Reqs :
        (DispatchFailed(r) /\ Alternate(calls[r][1]) /= None) =>
            calls[r] = <<calls[r][1], Alternate(calls[r][1])>>

\* C3 for non-streamed requests, where the failover does run: a non-streamed
\* request whose dispatch to Azure (OpenRouter)
\* failed is retried exactly once against OpenRouter (Azure) when that one is
\* configured, and when the retry is answered by a completion the caller gets
\* that completion, post-processed, with status 200
C3_Failover ==
    \A r \in Reqs :
        (~request[r].stream /\ DispatchFailed(r) /\ Alternate(calls[r][1]) /= None) =>
            /\ calls[r] = <<calls[r][1], Alternate(calls[r][1])>>
            /\ (Len(answers[r]) = 2 /\ GoodCompletion(answers[r][2])) =>
                  /\ pc[r] = "done"
                  /\ result[r].kind = "json"
                  /\ result[r].status_code = 200
                  /\ result[r].body.choices[1].message.content =
                        enhance_text_with_markdown(
                            json_loads(answers[r][2].text).choices[1].message.content)

\* C3 witness: OpenRouter answered 503, Azure was tried next and its
\* completion was returned
C3_Witness ==
    \E r \in Reqs :
        /\ calls[r] = <<"openrouter", "azure">>
        /\ Len(answers[r]) = 2
        /\ answers[r][1].status_code = 503
        /\ GoodCompletion(answers[r][2])
        /\ result[r].kind = "json"

\* the exception the i-th attempt of r ended with
ErrorOf(r, i) ==
    forward_regular_request(calls[r][i], chats, request[r], answers[r][i]).exc

\* C4: no request has more than two upstream calls, a second call goes to
\* another provider than the first, and when both are answered and the caller
\* has an error it is one 500 whose message holds the first error, then the
\* second
C4_OneShot ==
    \A r \in Reqs :
        /\ Len(calls[r]) <= 2
        /\ Len(calls[r]) = 2 => calls[r][1] = provider[r] /\ calls[r][2] /= calls[r][1]
        /\ (Len(answers[r]) = 2 /\ result[r].kind = "error") =>
              /\ pc[r] = "done"
              /\ result[r].status_code = 500
              /\ result[r].body = <<"Both providers failed: ", str(ErrorOf(r, 1)),
                                    " | ", str(ErrorOf(r, 2))>>

\* C4 witness: Azure could not be reached, then OpenRouter answered 404
C4_Witness ==
    \E r \in Reqs :
        /\ calls[r] = <<"azure", "openrouter">>
        /\ Len(answers[r]) = 2
        /\ answers[r][1].kind = "RequestError"
        /\ answers[r][2].status_code = 404
        /\ result[r].kind = "error"

\* C5: a request resolved to Local has at most the one call to Local, and if
\* that fails the caller has the error at once; no second call of any request
\* goes to Local
C5_LocalExcluded ==
    \A r \in Reqs :
        /\ provider[r] = "local" =>
              /\ Len(calls[r]) <= 1
              /\ exc[r] /= NoException =>
                    /\ pc[r] = "done"
                    /\ calls[r] = <<"local">>
                    /\ result[r].kind = "error"
        /\ \A i \in 2..Len(calls[r]) : calls[r][i] /= "local"

\* C5 witness: Local failed while Azure and OpenRouter were both configured,
\* and the request ended with the single call to Local
C5_Witness ==
    \E r \in Reqs :
        /\ provider[r] = "local"
        /\ available("azure") /\ available("openrouter")
        /\ exc[r] /= NoException
        /\ pc[r] = "done"
        /\ calls[r] = <<"local">>

\* C6: while the stream of a 200 answer is relayed, and after it has ended
\* normally, the chunks yielded are the chunks read, in order
C6_Relay ==
    \A r \in Reqs :
        pc[r] \in {"relay", "done"} /\ request[r].stream => yielded[r] = upstream[r]

\* C6 witness: a stream with a chunk without the data marker, a data chunk
\* that is no JSON and the sentinel ended normally, with a chat attached
C6_Witness ==
    \E r \in Reqs :
        /\ pc[r] = "done"
        /\ request[r].chat_id = "1"
        /\ upstream[r] = <<C_ping, C_cut, C_DONE>>
        /\ yielded[r] = <<C_ping, C_cut, C_DONE>>

\* the chunk has the data marker, is not the sentinel and parses to a
\* content delta
HasContentDelta(chunk) ==
    /\ chunk.head = DataMarker
    /\ IsJson(chunk.tail)
    /\ "choices" \in DOMAIN json_loads(chunk.tail)
    /\ Len(json_loads(chunk.tail).choices) > 0
    /\ "delta" \in DOMAIN json_loads(chunk.tail).choices[1]
    /\ "content" \in DOMAIN json_loads(chunk.tail).choices[1].delta

\* the content deltas of a sequence of chunks, concatenated in order
RECURSIVE Transcript(_)
Transcript(chunks) ==
    IF chunks = <<>> THEN <<>>
    ELSE (IF HasContentDelta(Head(chunks))
          THEN json_loads(Head(chunks).tail).choices[1].delta.content
          ELSE <<>>) \o Transcript(Tail(chunks))

\* C7 as stated: at the end of every stream the accumulator holds the
\* content deltas of the chunks read, in order
C7_Original ==
    \A r \in Reqs :
        request[r].stream /\ pc[r] = "done" =>
            full_response[r] = Transcript(upstream[r])

\* C7 amended: for a streaming request with a chat identifier attached that
\* is not zero the accumulator holds, during relay and at the end of the stream, the content
\* deltas of the chunks read so far, in order
C7_Transcript ==
    \A r \in Reqs :
        (request[r].stream /\ Truthy(request[r].chat_id)
         /\ pc[r] \in {"relay", "done"}) =>
            full_response[r] = Transcript(upstream[r])

\* C7 witness: "Hi", " there" and the sentinel were read and the transcript
\* is "Hi there"
C7_Witness ==
    \E r \in Reqs :
        /\ pc[r] = "done"
        /\ upstream[r] = <<C_Hi, C_there, C_DONE>>
        /\ full_response[r] = T_Hi_there

\* C8: once the upstream has answered a stream request with a status outside
\* 2xx, the generator is in its error end state, no chunk was read or relayed,
\* and the caller was sent exactly one event, an error event
C8_Rejected ==
    \A r \in Reqs :
        (status[r] /= 0 /\ (status[r] < 200 \/ status[r] >= 300)) =>
            /\ pc[r] = "upstream_error"
            /\ upstream[r] = <<>>
            /\ Len(yielded[r]) = 1
            /\ yielded[r][1].head = DataMarker
            /\ IsJson(yielded[r][1].tail)
            /\ DOMAIN json_loads(yielded[r][1].tail) = {"error"}

\* C8 witness: the upstream answered 404 and the one error event went out
C8_Witness ==
    \E r \in Reqs :
        /\ status[r] = 404
        /\ pc[r] = "upstream_error"
        /\ Len(yielded[r]) = 1

\* two PUTs of different clients, both built on a read of the empty list
RacedTwice ==
    /\ Len(writes) >= 2
    /\ writes[1].client /= writes[2].client
    /\ writes[1].read = <<>>
    /\ writes[2].read = <<>>

\* C9: when the first two updates of the chat come from two clients that
\* both read the empty list, both are accepted, and after the second one the
\* stored list is the second client's message alone
C9_LaterWriteWins ==
    (RacedTwice /\ Len(writes) = 2) =>
        /\ writes[1].success /\ writes[2].success
        /\ StoredMessages(chats, ClientChat) = <<ClientMessage(writes[2].client)>>

\* C9 witness: A and B both read the empty list, A wrote, then B wrote, and
\* only B's message is stored
C9_Witness ==
    /\ RacedTwice
    /\ Len(writes) = 2
    /\ writes[1].client = "A"
    /\ StoredMessages(chats, ClientChat) = <<Message("user", T_b)>>

\* C10: the step that ends a stream appends one assistant message holding
\* the whole transcript to the list stored at that moment when a chat
\* identifier is attached, the chat exists and the transcript is not empty,
\* and leaves the table as it is otherwise
C10_TranscriptStored ==
    [][\A r \in Reqs :
          (pc[r] = "relay" /\ pc'[r] = "done") =>
              LET chat_id == request[r].chat_id
                  transcript == Transcript(upstream[r])
              IN IF Truthy(chat_id) /\ chat_id \in DOMAIN chats /\ transcript /= <<>>
                 THEN /\ DOMAIN chats' = DOMAIN chats
                      /\ StoredMessages(chats', chat_id) =
                            StoredMessages(chats, chat_id)
                            \o <<Message("assistant", transcript)>>
                      /\ \A c \in DOMAIN chats \ {chat_id} : chats'[c] = chats[c]
                 ELSE chats' = chats]_vars

\* C10 witness: the stream ended and chat "1" holds the earlier message, the
\* caller's message and the assistant's "Hi there"
C10_Witness ==
    \E r \in Reqs :
        /\ pc[r] = "done"
        /\ request[r].stream
        /\ request[r].chat_id = "1"
        /\ StoredMessages(chats, "1") =
              <<M_old, M_user, Message("assistant", T_Hi_there)>>

\* the messages of role user among the messages of a request
UserRole(messages) == SelectSeq(messages, LAMBDA m : m.role = "user")

\* the step of r on which the upstream has accepted the stream and the
\* generator moves on to its relay loop
RelayBegins(r) == pc[r] = "open" /\ pc'[r] = "relay"

\* r carries the identifier of a chat that is stored
HasChat(r) ==
    Truthy(request[r].chat_id) /\ request[r].chat_id \in DOMAIN chats

C12_Disconnect ==
    \A r \in Reqs :
        pc[r] = "cancelled" =>
            /\ yielded[r] = upstream[r]
            /\ HasChat(r) =>
                  StoredMessages(chats, request[r].chat_id) =
                      <<M_old>> \o (IF status[r] = 200 THEN request[r].messages
                                    ELSE <<>>)

\* C12 witness: the caller left after "Hi" was relayed; the transcript "Hi"
\* is in memory only
C12_Witness ==
    \E r \in Reqs :
        /\ pc[r] = "cancelled"
        /\ request[r].chat_id = "1"
        /\ yielded[r] = <<C_Hi>>
        /\ full_response[r] = T_Hi
        /\ StoredMessages(chats, "1") = <<M_old>> \o request[r].messages

\* the non-streamed request r was answered by a completion
Completed(r) ==
    /\ pc[r] = "done"
    /\ ~request[r].stream
    /\ result[r].kind = "json"

\* C13: after a successful non-streamed completion for a stored chat, the
\* stored list is the earlier list, then the messages of the request, then
\* one assistant message, whose content is the enhanced text of the answer
\* and is the content returned to the caller
C13_ExchangeStored ==
    \A r \in Reqs :
        (Completed(r) /\ HasChat(r)) =>
            LET answer == answers[r][Len(answers[r])]
                raw == json_loads(answer.text).choices[1].message.content
                returned == result[r].body.choices[1].message
            IN /\ StoredMessages(chats, request[r].chat_id) =
                      <<M_old>> \o request[r].messages
                      \o <<Message("assistant", returned.content)>>
               /\ returned.content = enhance_text_with_markdown(raw)

\* C13 witness: the answer "nota" was returned and stored as "**nota**"
\* after the system and the user message of the request
C13_Witness ==
    \E r \in Reqs :
        /\ Completed(r)
        /\ request[r].chat_id = "1"
        /\ StoredMessages(chats, "1") =
              <<M_old, M_system, M_user,
                Message("assistant", <<"*", "*", "n", "o", "t", "a", "*", "*">>)>>

\* C14 as stated: a non-streamed request whose only dispatch was answered
\* with a status outside 2xx, and for which no failover applies, ends with an
\* error response that carries that status and that body
C14_Original ==
    \A r \in Reqs :
        (/\ pc[r] = "done"
         /\ ~request[r].stream
         /\ Len(answers[r]) = 1
         /\ answers[r][1].kind = "response"
         /\ answers[r][1].status_code \notin 200..299
         /\ FailoverTarget(provider[r]) = None) =>
            /\ result[r].kind = "error"
            /\ result[r].status_code = answers[r][1].status_code
            /\ result[r].body = answers[r][1].text

\* the text chunk_text works on after its clean-up, and its paragraphs
Cleaned == clean_text(document)
Paragraphs == paragraphs_of(Cleaned)

\* C18 as stated: a text without a paragraph break that is longer than
\* chunk_size comes back as windows of exactly chunk_size characters, the
\* last one possibly shorter, which put together are the text
C18_Original ==
    (/\ kpc = "returned"
     /\ ~contains(Cleaned, ParagraphBreak)
     /\ Len(Cleaned) > size) =>
        /\ \A i \in 1..(Len(produced) - 1) : Len(produced[i]) = size
        /\ \A i \in 1..Len(produced) : Len(produced[i]) <= size
        /\ join(<<>>, produced) = Cleaned

\* C19: when every paragraph is at most chunk_size long, every chunk is
\* non-empty and the chunks joined by the paragraph separator are the
\* paragraphs of the text joined by it: none lost, duplicated or reordered
C19_Reconstruction ==
    (/\ kpc = "returned"
     /\ \A i \in 1..Len(Paragraphs) : Len(Paragraphs[i]) <= size) =>
        /\ \A i \in 1..Len(produced) : produced[i] /= <<>>
        /\ join(ParagraphBreak, produced) = join(ParagraphBreak, Paragraphs)
        /\ Len(produced) <= Len(Paragraphs)

\* C19 witness: the two paragraphs of "a \n\n\nb" fit and came back as one
\* chunk, with the separator between them
C19_Witness ==
    /\ kpc = "returned"
    /\ size = 4
    /\ document = <<"a", " ", "\n", "\n", "\n", "b">>
    /\ Paragraphs = << <<"a">>, <<"b">> >>
    /\ produced = << <<"a", "\n", "\n", "b">> >>

\* C20: a paragraph longer than chunk_size in a text of several paragraphs
\* is a chunk of its own, whole; and whenever the text has a paragraph the
\* chunks are whole paragraphs joined by the separator, never windows
C20_Asymmetry ==
    kpc = "returned" =>
        /\ \A i \in 1..Len(Paragraphs) :
              (Len(Paragraphs) >= 2 /\ Len(Paragraphs[i]) > size) =>
                  \E j \in 1..Len(produced) : produced[j] = Paragraphs[i]
        /\ Paragraphs /= <<>> =>
              /\ Len(produced) <= Len(Paragraphs)
              /\ join(ParagraphBreak, produced) = join(ParagraphBreak, Paragraphs)
        /\ Paragraphs = <<>> => produced = <<>>

\* C20 witness: the three-character paragraph of "aaa\n\nb" came back whole
\* with chunk_size 2
C20_Witness ==
    /\ kpc = "returned"
    /\ size = 2
    /\ document = <<"a", "a", "a", "\n", "\n", "b">>
    /\ produced = << <<"a", "a", "a">>, <<"b">> >>

\* the similarity of a chunk to a query
Similarity(chunks, query, c) ==
    cosine(encode(query), json_loads(chunks[c].embedding))
Reaching(query, project_id, v) ==
    Cardinality({c \in ChunksOf(rag_documents, rag_chunks, project_id) :
                    Similarity(rag_chunks, query, c) >= v})
Searched == searched.top_k > 0
FromChunk(documents, chunks, entry, query, c) ==
    /\ entry.similarity = Similarity(chunks, query, c)
    /\ entry.content = chunks[c].content
    /\ entry.filename = documents[chunks[c].document_id].filename

\* C15: a search returns at most K chunks of the project, each of similarity
\* at least the floor T, in descending order of similarity, and they are the
\* most similar ones: for every value v from T upwards the result holds as
\* many chunks of similarity v or more as the project has, up to K. The
\* context is the formatting of exactly these chunks.
C15_Ranking ==
    Searched =>
        LET q == searched.query
            p == searched.project_id
            K == searched.top_k
        IN /\ Len(retrieved) <= K
           /\ \A i \in 1..Len(retrieved) : retrieved[i].similarity >= THRESHOLD
           /\ \A i, j \in 1..Len(retrieved) :
                 i < j => retrieved[i].similarity >= retrieved[j].similarity
           /\ \A i \in 1..Len(retrieved) :
                 \E c \in ChunksOf(rag_documents, rag_chunks, p) :
                    FromChunk(rag_documents, rag_chunks, retrieved[i], q, c)
           /\ \A v \in THRESHOLD..100 :
                 Cardinality({i \in 1..Len(retrieved) :
                                 retrieved[i].similarity >= v})
                    = (IF Reaching(q, p, v) < K THEN Reaching(q, p, v) ELSE K)
           /\ rag_context =
                 (IF retrieved = <<>> THEN <<>>
                  ELSE join(<<"\n\n---\n\n">>,
                            [i \in 1..Len(retrieved) |->
                                context_part(retrieved[i])]))

\* C15 witness: the project holds three chunks of similarity 0.9, 0.2 and
\* 0.01 to the query and the search with the default K returned the first two
C15_Witness ==
    /\ Searched
    /\ searched.top_k = DEFAULT_TOP_K
    /\ {Similarity(rag_chunks, searched.query, c) :
           c \in ChunksOf(rag_documents, rag_chunks, searched.project_id)}
          = {90, 20, 1}
    /\ Cardinality(ChunksOf(rag_documents, rag_chunks, searched.project_id)) = 3
    /\ Len(retrieved) = 2
    /\ retrieved[1].similarity = 90
    /\ retrieved[2].similarity = 20

\* every document row that a step adds, removes or changes belongs to a
\* project other than project_id
OtherProjectsOnly(project_id) ==
    /\ rag_documents' /= rag_documents
    /\ \A d \in (DOMAIN rag_documents) \cup (DOMAIN rag_documents') :
          /\ d \in DOMAIN rag_documents /\ d \notin DOMAIN rag_documents'
                => rag_documents[d].project_id /= project_id
          /\ d \notin DOMAIN rag_documents /\ d \in DOMAIN rag_documents'
                => rag_documents'[d].project_id /= project_id
          /\ d \in DOMAIN rag_documents /\ d \in DOMAIN rag_documents'
                => \/ rag_documents'[d] = rag_documents[d]
                   \/ /\ rag_documents[d].project_id /= project_id
                      /\ rag_documents'[d].project_id /= project_id

\* C16: the chunks a search returns all belong to documents of the project
\* searched, and a step that ingests or deletes documents of other projects
\* only leaves the result of search(q, p) unchanged for every query and K.
C16_ProjectScoping ==
    [][/\ searched'.top_k > 0 =>
             \A i \in 1..Len(retrieved') :
                \E c \in ChunksOf(rag_documents', rag_chunks',
                                  searched'.project_id) :
                   FromChunk(rag_documents', rag_chunks', retrieved'[i],
                             searched'.query, c)
       /\ \A p \in Projects :
             OtherProjectsOnly(p) =>
                \A q \in Queries, K \in TopKs :
                   search(rag_documents', rag_chunks', q, p, K)
                      = search(rag_documents, rag_chunks, q, p, K)]_vars

\* C16 witness: the other project holds a chunk more similar to the query
\* than every chunk of the project searched, and the search returned a chunk
C16_Witness ==
    /\ Searched
    /\ retrieved /= <<>>
    /\ \E o \in Projects \ {searched.project_id} :
          \E c \in ChunksOf(rag_documents, rag_chunks, o) :
             \A i \in 1..Len(retrieved) :
                Similarity(rag_chunks, searched.query, c)
                   > retrieved[i].similarity

\* C17: a search in a project without chunks, or in a project none of whose
\* chunks reaches the floor, returns the empty context as its value.
C17_EmptyContext ==
    Searched /\ Reaching(searched.query, searched.project_id, THRESHOLD) = 0
        => /\ searched.outcome = "returned"
           /\ rag_context = <<>>

\* C17 witness: a search returned the empty context for a project that holds
\* chunks, none of which reaches the floor
C17_Witness ==
    /\ Searched
    /\ searched.outcome = "returned"
    /\ rag_context = <<>>
    /\ ChunksOf(rag_documents, rag_chunks, searched.project_id) /= {}
    /\ \A c \in ChunksOf(rag_documents, rag_chunks, searched.project_id) :
          Similarity(rag_chunks, searched.query, c) < THRESHOLD

\* what the chunker gives for each text of the catalogues
ChunkerOutput == [content \in Texts |-> chunk_text(content, DEFAULT_CHUNK_SIZE)]

\* the ids of the rows a step adds to a table
NewDocuments == (DOMAIN rag_documents') \ (DOMAIN rag_documents)
NewChunks == (DOMAIN rag_chunks') \ (DOMAIN rag_chunks)

\* C21: a call of add_document that returns, on a text that chunks into
\* N >= 1 chunks, adds exactly one document row, of the given project, filename and content, and
\* exactly N chunk rows, which all reference the new document and hold the
\* chunks of the text in order; every earlier row stays as it was.
C21_RowCounts ==
    [][\A project_id \in Projects, upload \in Files :
          LET chunks == ChunkerOutput[upload.content]
              N == Len(chunks)
          IN /\ response'.kind = "value"
             /\ N >= 1
             /\ add_document(project_id, upload.filename, upload.content)
             => /\ Cardinality(NewDocuments) = 1
                /\ \A d \in NewDocuments :
                      /\ rag_documents'[d].project_id = project_id
                      /\ rag_documents'[d].filename = upload.filename
                      /\ rag_documents'[d].content = upload.content
                      /\ \A c \in NewChunks : rag_chunks'[c].document_id = d
                /\ Cardinality(NewChunks) = N
                /\ LET ids == ascending(NewChunks)
                   IN \A i \in 1..N : rag_chunks'[ids[i]].content = chunks[i]
                /\ \A d \in DOMAIN rag_documents :
                      d \in DOMAIN rag_documents'
                         /\ rag_documents'[d] = rag_documents[d]
                /\ \A c \in DOMAIN rag_chunks :
                      c \in DOMAIN rag_chunks' /\ rag_chunks'[c] = rag_chunks[c]]_vars

\* C21 witness: a document of two chunks was ingested after another document
\* and its two chunk rows hold its chunks in order
C21_Witness ==
    /\ Cardinality(DOMAIN rag_documents) = 2
    /\ Cardinality(DOMAIN rag_chunks) = 3
    /\ 2 \in DOMAIN rag_documents
    /\ {2, 3} \subseteq DOMAIN rag_chunks
    /\ rag_chunks[2].document_id = 2
    /\ rag_chunks[3].document_id = 2
    /\ <<rag_chunks[2].content, rag_chunks[3].content>>
          = chunk_text(rag_documents[2].content, DEFAULT_CHUNK_SIZE)

\* C22 as stated: a call of add_document on a text that gives no chunk, which
\* returns a document id, leaves one more document row in the project
C22_Original ==
    [][\A project_id \in Projects, upload \in Files :
          /\ add_document(project_id, upload.filename, upload.content)
          /\ ChunkerOutput[upload.content] = <<>>
          /\ response'.kind = "value"
          => get_project_stats(rag_documents', rag_chunks', project_id).documents
                = get_project_stats(rag_documents, rag_chunks, project_id).documents + 1]_vars

\* C24 as stated: an upload to a project that exists, of a text of fewer than
\* 50 characters after trimming, is answered with a 4xx status and creates
\* no document row and no chunk row
C24_Original ==
    [][\A project_id \in Projects, file \in Files :
          /\ upload_document(project_id, file)
          /\ project_id \in projects
          /\ file.utf8
          /\ Len(strip(file.content)) < MIN_UPLOAD
          => /\ response'.status_code \in 400..499
             /\ rag_documents' = rag_documents
             /\ rag_chunks' = rag_chunks]_vars

\* the rows that belong to a project: its chats, its documents, their chunks
RowsOf(project_id) ==
    [chats |-> {c \in DOMAIN chats : chats[c].project_id = project_id},
     documents |-> {d \in DOMAIN rag_documents :
                       rag_documents[d].project_id = project_id},
     chunks |-> {c \in DOMAIN rag_chunks :
                    /\ rag_chunks[c].document_id \in DOMAIN rag_documents
                    /\ rag_documents[rag_chunks[c].document_id].project_id
                          = project_id}]

\* C26 as stated: after delete_project(p) succeeded, no chat, document or
\* chunk that belonged to p is left in its table
C26_Original ==
    [][\A project_id \in Projects :
          /\ delete_project(project_id)
          /\ response'.status_code = 200
          => /\ RowsOf(project_id).chats \cap DOMAIN chats' = {}
             /\ RowsOf(project_id).documents \cap DOMAIN rag_documents' = {}
             /\ RowsOf(project_id).chunks \cap DOMAIN rag_chunks' = {}]_vars

\* the chunk rows whose embedding is well-formed
WellFormed(chunks) ==
    [c \in {x \in DOMAIN chunks : chunks[x].embedding \notin StaleEmbeddings} |->
        chunks[c]]

\* C27: when chunk rows of unparseable embedding or of an embedding of
\* another dimension are stored, a search returns, and what it returns is
\* what it returns on the table without these rows.
C27_StaleSkipped ==
    Searched =>
        /\ searched.outcome = "returned"
        /\ rag_context = search(rag_documents, WellFormed(rag_chunks),
                                searched.query, searched.project_id,
                                searched.top_k)

\* C27 witness: the project searched holds a chunk of unparseable embedding
\* and a chunk of an embedding of another dimension, and the search returned
\* a well-formed chunk
C27_Witness ==
    /\ Searched
    /\ retrieved /= <<>>
    /\ \E c, d \in ChunksOf(rag_documents, rag_chunks, searched.project_id) :
          /\ rag_chunks[c].embedding = E_truncated
          /\ rag_chunks[d].embedding = E_short

HasIndicator(text) ==
    \E i \in 1..Len(markdown_indicators) : contains(text, markdown_indicators[i])

\* C25: every pass of the enhancer over its own result gives that result
\* again, and a text that contains a markdown indicator is returned as it is.
C25_Idempotent ==
    /\ \A i \in 2..Len(enhanced) : enhanced[i] = enhanced[i - 1]
    /\ enhanced /= <<>> /\ HasIndicator(reply) => enhanced[1] = reply

\* C25 witness: the first pass changed a text of several lines without
\* indicator and the second pass left the result alone
C25_Witness ==
    /\ Len(enhanced) >= 2
    /\ ~HasIndicator(reply)
    /\ contains(reply, <<"\n">>)
    /\ enhanced[1] /= reply
    /\ HasIndicator(enhanced[1])
    /\ enhanced[2] = enhanced[1]

\* C29: a call update_chat(id, messages=m) on a chat that exists succeeds,
\* get_chat(id) gives the messages m afterwards, the title, the context and
\* the project of the chat and every other chat are as before; a call on a
\* chat that does not exist, or with no field, returns false and leaves the
\* table as it was.
C29_Patch ==
    [][Len(writes') = Len(writes) + 1 =>
          LET w == writes'[Len(writes')]
              id == w.chat_id
          IN /\ /\ id \in DOMAIN chats
                /\ w.messages /= Nothing
                /\ w.title = Nothing
                /\ w.context = Nothing
                => /\ w.success
                   /\ DOMAIN chats' = DOMAIN chats
                   /\ StoredMessages(chats', id) = The(w.messages)
                   /\ chats'[id].title = chats[id].title
                   /\ chats'[id].context = chats[id].context
                   /\ chats'[id].project_id = chats[id].project_id
                   /\ \A other \in DOMAIN chats \ {id} : chats'[other] = chats[other]
             /\ \/ id \notin DOMAIN chats
                \/ w.messages = Nothing /\ w.title = Nothing /\ w.context = Nothing
                => ~w.success /\ chats' = chats]_vars

\* C29 witness: after a call that changed title and context, a call with
\* messages only replaced the stored list and kept that title and context
C29_Witness ==
    /\ Len(writes) = 2
    /\ writes[1].title = Some(T_a)
    /\ writes[1].context = Some(T_b)
    /\ writes[2] = [chat_id |-> "1", title |-> Nothing,
                    messages |-> Some(<<M_user>>), context |-> Nothing,
                    success |-> TRUE]
    /\ StoredMessages(chats, "1") = <<M_user>>
    /\ chats["1"].title = T_a
    /\ chats["1"].context = T_b

\* the caller was sent an error event of provider p as the last event
ErrorEventOf(r, p) ==
    /\ yielded[r] /= <<>>
    /\ LET e == yielded[r][Len(yielded[r])]
       IN /\ e.head = DataMarker
          /\ IsJson(e.tail)
          /\ DOMAIN json_loads(e.tail) = {"error"}
          /\ json_loads(e.tail).error[1] \in {StatusEventText(p), ProviderName(p)}

\* C30: for a streamed request at most one upstream call is made, to the
\* provider that was resolved; nothing is raised into chat_completions, the
\* caller keeps the 200 event stream, and a rejection or a transport failure
\* of the upstream shows as an error event of that provider at the end of
\* the stream.
C30_NoStreamFailover ==
    \A r \in Reqs :
        request[r].stream =>
            /\ Len(calls[r]) <= 1
            /\ calls[r] /= <<>> => calls[r] = <<provider[r]>>
            /\ attempt[r] = provider[r]
            /\ exc[r] = NoException
            /\ pc[r] = "upstream_error" =>
                  /\ result[r] = StreamingResponse
                  /\ ErrorEventOf(r, provider[r])

\* C30 witness: Azure rejected a streamed request with 503 while OpenRouter
\* is configured, and the one call made is the call to Azure
C30_Witness ==
    \E r \in Reqs :
        /\ request[r].stream
        /\ provider[r] = "azure"
        /\ available("openrouter")
        /\ status[r] = 503
        /\ pc[r] = "upstream_error"
        /\ calls[r] = <<"azure">>

\* the messages of a list that are no system messages, in their order
RECURSIVE NonSystem(_)
NonSystem(messages) ==
    IF messages = <<>> THEN <<>>
    ELSE IF Head(messages).role = "system" THEN NonSystem(Tail(messages))
    ELSE <<Head(messages)>> \o NonSystem(Tail(messages))

\* the number of system messages of a list
SystemCount(messages) ==
    Cardinality({i \in 1..Len(messages) : messages[i].role = "system"})

\* C23: once chat_completions has built the message list of a request, the
\* list holds exactly one system message, which is its first element and
\* starts with the base instructions the handler synthesizes; what follows
\* it is the request's list without its system messages: the same messages
\* in the same order, none added and none dropped.
C23_Assembly ==
    \A r \in Reqs :
        retrieval[r] /= "none" =>
            LET sent == messages_to_send[r]
            IN /\ sent /= <<>>
               /\ sent[1].role = "system"
               /\ Len(sent[1].content) >= Len(base_system)
               /\ SubSeq(sent[1].content, 1, Len(base_system)) = base_system
               /\ SystemCount(sent) = 1
               /\ Tail(sent) = NonSystem(request[r].messages)

\* C23 witness: a request with two system messages among five, whose chat
\* has documents that match, was assembled into one system message that
\* carries the context, followed by the three other messages
C23_Witness ==
    \E r \in Reqs :
        /\ retrieval[r] = "returned"
        /\ SystemCount(request[r].messages) = 2
        /\ Len(request[r].messages) = 5
        /\ messages_to_send[r][1].role = "system"
        /\ Tail(messages_to_send[r]) = <<M_due, M_assistant, M_uno>>

\* the RAG step of a request is not attempted: no chat id, no chat or a chat
\* without project, a project without documents, or no user query
NotAttempted(req) ==
    \/ ~Truthy(req.chat_id)
    \/ req.chat_id \notin DOMAIN chats
    \/ /\ req.chat_id \in DOMAIN chats
       /\ \/ chats[req.chat_id].project_id = 0
          \/ ~\E d \in DOMAIN rag_documents :
                rag_documents[d].project_id = chats[req.chat_id].project_id
    \/ \A i \in 1..Len(req.messages) : req.messages[i].role /= "user"
    \/ \E i \in 1..Len(req.messages) :
          /\ req.messages[i].role = "user"
          /\ \A j \in (i + 1)..Len(req.messages) : req.messages[j].role /= "user"
          /\ \A j \in 1..Len(req.messages[i].content) :
                req.messages[i].content[j] \in {" ", "\n", "\t"}

\* C28: whenever chat_completions handles a request, the request is routed
\* and dispatched to the resolved provider; when retrieval is not attempted,
\* raises or returns the empty context, the system message sent is exactly
\* the base instructions; and the retrieved-context section is in the
\* system message exactly when retrieval returned a context that is not
\* empty, which it then encloses.
C28_NoAugmentation ==
    [][\A r \in Reqs :
          chat_completions(r) =>
              LET system == messages_to_send'[r][1].content
                  section == contains(system, CONTEXT_HEADER)
              IN /\ provider'[r] \in SUPPORTED_PROVIDERS
                 /\ IF request[r].stream
                    THEN pc'[r] = "generator" /\ result'[r] = StreamingResponse
                    ELSE pc'[r] = "await" /\ calls'[r] = <<provider'[r]>>
                 /\ NotAttempted(request[r]) =>
                       /\ retrieval'[r] \in {"not_attempted", "raised"}
                       /\ system = base_system
                 /\ retrieval'[r] \in {"not_attempted", "raised", "empty"} =>
                       system = base_system
                 /\ retrieval'[r] = "empty" =>
                       searched'.outcome = "returned" /\ rag_context' = <<>>
                 /\ section <=> retrieval'[r] = "returned"
                 /\ retrieval'[r] = "returned" =>
                       /\ rag_context' /= <<>>
                       /\ system = base_system \o CONTEXT_HEADER \o rag_context'
                                       \o CONTEXT_FOOTER]_vars

\* C28 witness: the project of the chat holds a document, the search for the
\* user query found nothing relevant in it, and the request went out with
\* the base instructions as its system message
C28_Witness ==
    \E r \in Reqs :
        /\ retrieval[r] = "empty"
        /\ request[r].chat_id \in DOMAIN chats
        /\ \E d \in DOMAIN rag_documents :
              rag_documents[d].project_id = chats[request[r].chat_id].project_id
        /\ searched.outcome = "returned"
        /\ rag_context = <<>>
        /\ messages_to_send[r][1] = Message("system", base_system)
        /\ pc[r] = "await"
        /\ calls[r] = <<provider[r]>>

\* C38 (as stated): delete_document on an existing document removes its row
\* and every chunk row that references it and nothing else; on an id that
\* does not exist it changes nothing and answers 404.
C38_Original ==
    [][\A document_id \in 1..MaxDocs :
          delete_document(document_id) =>
              IF document_id \in DOMAIN rag_documents
              THEN /\ rag_documents' = [d \in DOMAIN rag_documents \ {document_id}
                                           |-> rag_documents[d]]
                   /\ DOMAIN rag_chunks' =
                         {c \in DOMAIN rag_chunks :
                             rag_chunks[c].document_id /= document_id}
                   /\ \A c \in DOMAIN rag_chunks' : rag_chunks'[c] = rag_chunks[c]
                   /\ response'.status_code = 200
              ELSE /\ rag_documents' = rag_documents
                   /\ rag_chunks' = rag_chunks
                   /\ response'.status_code = 404]_vars

\* the document and chunk counts of every project
StatsOf(documents, chunks) ==
    [p \in Projects |->
        [documents |-> Cardinality({d \in DOMAIN documents :
                                       documents[d].project_id = p}),
         chunks |-> Cardinality({c \in DOMAIN chunks :
                                    \E d \in DOMAIN documents :
                                        /\ chunks[c].document_id = d
                                        /\ documents[d].project_id = p})]]

\* C37: whenever add_document raises, called directly or by
\* upload_document (which then answers 500 with the error's text), the
\* tables rag_documents and rag_chunks are as they were before the call, and
\* so are the document and chunk counts of every project.
C37_AllOrNothing ==
    [][(\/ response'.kind = "raised"
        \/ /\ response'.kind = "error"
           /\ response'.status_code = 500
           /\ response'.body[1] = "Errore processamento: ")
          => /\ rag_documents' = rag_documents
             /\ rag_chunks' = rag_chunks
             /\ StatsOf(rag_documents', rag_chunks')
                   = StatsOf(rag_documents, rag_chunks)]_vars

\* C37 witness: after one document was stored, an upload whose text gives
\* chunks failed in the encoder or in a chunk INSERT and was answered 500,
\* and the tables hold the first document only
C37_Witness ==
    /\ response.kind = "error"
    /\ response.status_code = 500
    /\ \E name \in {"RuntimeError", "OperationalError"} :
          response.body = <<"Errore processamento: ", name>>
    /\ DOMAIN rag_documents = {1}
    /\ sequence.rag_documents = 1
    /\ \A c \in DOMAIN rag_chunks : rag_chunks[c].document_id = 1

\* the number of paragraphs of a chunk: its paragraphs hold no separator and
\* are joined by it
RECURSIVE ParagraphCount(_)
ParagraphCount(chunk) ==
    IF Len(chunk) < 2 THEN 1
    ELSE IF SubSeq(chunk, 1, 2) = <<"\n", "\n">>
    THEN 1 + ParagraphCount(SubSeq(chunk, 3, Len(chunk)))
    ELSE ParagraphCount(Tail(chunk))

\* C36: every chunk that chunk_text returned and that holds two or more
\* paragraphs is at most chunk_size long; a chunk longer than chunk_size is
\* one paragraph.
C36_SizeBound ==
    kpc = "returned" =>
        \A i \in 1..Len(produced) :
            /\ ParagraphCount(produced[i]) >= 2 => Len(produced[i]) <= size
            /\ Len(produced[i]) > size => ParagraphCount(produced[i]) = 1

\* C36 witness: two paragraphs that together with their separator are exactly
\* chunk_size long came back as one chunk
C36_Witness ==
    /\ kpc = "returned"
    /\ size = 4
    /\ produced /= <<>>
    /\ ParagraphCount(produced[1]) = 2
    /\ Len(produced[1]) = size

\* C31: every upstream call made for a request, the first one and the one
\* made after a failure, goes to a supported provider that is configured;
\* the provider whose forward_* call runs is configured; and a request
\* that names a provider outside the supported ones is answered 400 with no
\* upstream call at all.
C31_AvailableOnly ==
    \A r \in Reqs :
        /\ \A i \in 1..Len(calls[r]) :
              /\ calls[r][i] \in SUPPORTED_PROVIDERS
              /\ available(calls[r][i])
        /\ attempt[r] /= None => available(attempt[r])
        /\ (pc[r] \notin {"off", "start"}
               /\ SelectedProvider(request[r]) \notin SUPPORTED_PROVIDERS) =>
              /\ calls[r] = <<>>
              /\ result[r].kind = "error"
              /\ result[r].status_code = 400
              /\ pc[r] = "done"

\* C31 witness: the request asked for Local, which is not configured; it was
\* sent to Azure, Azure failed, and it was sent to OpenRouter
C31_Witness ==
    \E r \in Reqs :
        /\ request[r].provider = "local"
        /\ ~LOCAL_ENDPOINT
        /\ calls[r] = <<"azure", "openrouter">>
        /\ Len(answers[r]) = 2

\* the table chats before the request of Spec is handled
InitialChats == "1" :> ChatRow(1, T_old, <<>>, <<M_old>>)

\* the table holds the one exchange of request r, written once: the stored
\* list is the earlier one, then the messages of the request, then the
\* assistant message that was returned
WroteOnce(r) ==
    /\ request[r].chat_id = "1"
    /\ pc[r] = "done"
    /\ result[r].kind = "json"
    /\ chats = [InitialChats EXCEPT !["1"].messages = chats["1"].messages]
    /\ \E content \in {result[r].body.choices[1].message.content} :
          StoredMessages(chats, "1") =
              <<M_old>> \o request[r].messages
                        \o <<Message("assistant", content)>>

\* C32: for a non-streamed request the table chats is as it was before the
\* request, or holds the request's messages and one assistant message
\* appended once by the attempt that succeeded; it is as it was while the
\* call to the failover provider is awaited (the first attempt failed) and
\* when the request was answered with an error (every attempt failed).
C32_FailedAttemptsPersistNothing ==
    \A r \in Reqs :
        (~request[r].stream /\ pc[r] /= "off") =>
            /\ chats = InitialChats \/ WroteOnce(r)
            /\ pc[r] = "await_fallback" => chats = InitialChats
            /\ result[r].kind = "error" => chats = InitialChats
            /\ (pc[r] = "done" /\ result[r].kind = "json"
                  /\ request[r].chat_id = "1") => chats /= InitialChats

\* C32 witness: Azure answered 503 and OpenRouter a transport error to a
\* request on chat "1", which was answered with an error, and the chat holds
\* what it held
C32_Witness ==
    \E r \in Reqs :
        /\ ~request[r].stream
        /\ request[r].chat_id = "1"
        /\ calls[r] = <<"azure", "openrouter">>
        /\ Len(answers[r]) = 2
        /\ answers[r][1].status_code = 503
        /\ answers[r][2].kind = "RequestError"
        /\ result[r].kind = "error"
        /\ StoredMessages(chats, "1") = <<M_old>>

\* C33: when the upstream answered the stream request of a request with a
\* status other than 200, the table chats is as it was before the request:
\* neither the messages of the request nor an assistant message were stored.
C33_RejectedStreamPersistsNothing ==
    \A r \in Reqs :
        (request[r].stream /\ status[r] \notin {0, 200}) =>
            /\ chats = InitialChats
            /\ pc[r] = "upstream_error"
            /\ upstream[r] = <<>>
            /\ full_response[r] = <<>>

\* C33 witness: the stream request of a request on chat "1" was answered 404,
\* the caller was sent the error event, and the chat holds what it held
C33_Witness ==
    \E r \in Reqs :
        /\ request[r].stream
        /\ request[r].chat_id = "1"
        /\ status[r] = 404
        /\ pc[r] = "upstream_error"
        /\ Len(yielded[r]) = 1
        /\ StoredMessages(chats, "1") = <<M_old>>

\* C34: when the upstream accepted the stream request and then failed after
\* n chunks, the caller was sent exactly those n chunks, in order, and then
\* one error event of the provider, and nothing else; the stored list of the
\* chat is the earlier list followed by the messages of the request, with no
\* assistant message (for a request without an existing chat the table is as
\* it was).
C34_MidStreamFailure ==
    \A r \in Reqs :
        (request[r].stream /\ status[r] = 200 /\ pc[r] = "upstream_error") =>
            /\ Len(yielded[r]) = Len(upstream[r]) + 1
            /\ SubSeq(yielded[r], 1, Len(upstream[r])) = upstream[r]
            /\ ErrorEventOf(r, provider[r])
            /\ IF request[r].chat_id = "1"
               THEN /\ StoredMessages(chats, "1") = <<M_old>> \o request[r].messages
                    /\ chats = [InitialChats EXCEPT !["1"].messages =
                                                       chats["1"].messages]
               ELSE chats = InitialChats

\* C34 witness: the upstream of a request on chat "1" failed after two
\* chunks that carried text; the caller has the two chunks and the error
\* event, the chat has the messages of the request and no assistant message
C34_Witness ==
    \E r \in Reqs :
        /\ request[r].stream
        /\ request[r].chat_id = "1"
        /\ status[r] = 200
        /\ pc[r] = "upstream_error"
        /\ Len(upstream[r]) = 2
        /\ full_response[r] /= <<>>
        /\ Len(yielded[r]) = 3
        /\ StoredMessages(chats, "1") = <<M_old>> \o request[r].messages

\* what request r has appended to the stored list so far, as the blocks it
\* wrote, in order: a streamed request writes its messages when the stream
\* is accepted and the transcript when the stream has ended; a request that
\* is not streamed writes its messages and the assistant message at once
BlocksOf(r) ==
    IF request[r].stream
    THEN (IF status[r] = 200 THEN <<request[r].messages>> ELSE <<>>)
         \o (IF pc[r] = "done" /\ full_response[r] /= <<>>
             THEN << <<Message("assistant", full_response[r])>> >> ELSE <<>>)
    ELSE IF pc[r] = "done" /\ result[r].kind = "json"
    THEN <<request[r].messages
             \o <<Message("assistant",
                          result[r].body.choices[1].message.content)>> >>
    ELSE <<>>

\* the lists that hold the blocks of two writers, each writer's blocks in
\* its order and every block unbroken
RECURSIVE Interleavings(_, _)
Interleavings(xs, ys) ==
    IF xs = <<>> /\ ys = <<>> THEN {<<>>}
    ELSE (IF xs = <<>> THEN {}
          ELSE {Head(xs) \o z : z \in Interleavings(Tail(xs), ys)})
         \cup
         (IF ys = <<>> THEN {}
          ELSE {Head(ys) \o z : z \in Interleavings(xs, Tail(ys))})

\* C35: with two completion requests on one chat handled by the one event
\* loop, in every interleaving and at every moment, the stored list of the
\* chat is the earlier list followed by everything either request has
\* appended: each block written by one read-modify-write is unbroken, the
\* blocks of one request are in its order, nothing is lost or doubled, and
\* the other request's blocks come before, after or between the messages
\* and the transcript of a streamed request.
C35_NoLostUpdate ==
    StoredMessages(chats, "1") \in
        {<<M_old>> \o z : z \in Interleavings(BlocksOf("r1"), BlocksOf("r2"))}

\* C35 witness: two streamed requests ended; the second wrote its messages
\* between the first one's messages and transcript, and the stored list
\* holds the four blocks
C35_Witness ==
    /\ request["r1"].stream /\ request["r2"].stream
    /\ pc["r1"] = "done" /\ pc["r2"] = "done"
    /\ full_response["r1"] /= <<>> /\ full_response["r2"] /= <<>>
    /\ StoredMessages(chats, "1") =
          <<M_old, M_first, M_system, M_second,
            Message("assistant", full_response["r1"]),
            Message("assistant", full_response["r2"])>>

=============================================================================
